---- MODULE Spec2Model ----
(***************************************************************************)
(* Request execution engine of zerodrive-mcp-server: the HTTP request      *)
(* executor (apiRequest), its error classifier (handleErrorResponse,       *)
(* transformApiError and the error classes) and the retry controller       *)
(* (apiRequestWithRetry), the streaming upload (uploadFile) and the        *)
(* request assembly utilities (QueryBuilder, RequestBodyBuilder).          *)
(***************************************************************************)
EXTENDS Integers, Sequences, FiniteSets, TLC

VARIABLES
    apiKey,     \* the configured credential, getConfig('ZERODRIVE_API_KEY')
    pc,         \* position of the apiRequestWithRetry call: idle, attempt, sleep, done
    options,    \* the ApiRequestOptions of the call
    maxRetries, \* the resolved maxRetries of the call
    retryDelay, \* the resolved retryDelay of the call
    attempt,    \* the loop variable of apiRequestWithRetry
    lastError,  \* the local lastError of apiRequestWithRetry
    calls,      \* number of apiRequest invocations of the call so far
    sent,       \* the request handed to fetch by the last apiRequest
    fetched,    \* what that fetch call produced (a response or a thrown value)
    tried,      \* what the last apiRequest did: returned a value or threw an error
    flags,      \* retryable flag of the error of every failed attempt, in order
    sleeps,     \* the delays slept so far, in order
    outcome,    \* how apiRequestWithRetry ended: a returned value or a thrown one
    upc,        \* position of the uploadFile call: idle, pending, response, over
    upConfig,   \* the UploadConfig of the call: kind of the path, timeout
    upStream,   \* the file read stream of the call: none, open, closed
    upReq,      \* the HTTP request of the call: none, open, destroyed
    upStatus,   \* res.statusCode of the response of the upload
    upData,     \* responseData, the chunks of the response received so far
    upLog,      \* the settling callbacks of the upload that have run, in order
    upPromise,  \* the promise uploadFile returned: pending, resolved or rejected
    qOps,       \* number of operations applied to the QueryBuilder
    qParams,    \* its URLSearchParams: the list of (name, value) pairs
    qLog,       \* the (key, value) handed to its operations so far, in order
    qBuilt,     \* what build() returned for these parameters, once called
    bHeap,      \* the objects of the RequestBodyBuilder: this.body, then the built ones
    bExpected,  \* the fields the setters of the builder have accumulated
    bRefs,      \* the references its build() calls returned, in order
    bSets,      \* number of setter calls on the builder
    bMutations, \* number of changes callers made to returned objects
    bLast,      \* the last operation: its name and its arguments
    bBefore,    \* this.body before the last operation
    bResult,    \* what the last builder method did: returned or threw
    hResult,    \* what the body construction of a create_folder call gave
    hPosted,    \* the bodies that call handed to post
    wc,         \* position of the wrapError calls: idle, caught, once, twice
    wValue,     \* the caught value
    wOnce,      \* wrapError(value)
    wTwice,     \* wrapError(wrapError(value))
    wDecision,  \* the shouldRetry call made on the caught value, and what it returned
    eEndpoint,  \* the endpoint of the request whose response is an error
    eResponse,  \* the response handleErrorResponse is given
    eRaised,    \* what handleErrorResponse raised: the error, its message, its context
    env,        \* process.env, the variables loadConfig reads
    cachedConfig, \* let cachedConfig: Config | null
    cFirst,     \* the configuration of the first successful load since the last reset
    cCall,      \* the last call of the configuration module and its result
    tpc,        \* where the tool handler is: idle, awaiting, done
    tHelper,    \* the helper the handler called: get, post, put, patch, del
    tCalls,     \* apiRequest invocations made for the tool call
    tResult,    \* what the handler gave its caller
    kpc,        \* per call: idle, attempt, sleep, done
    kMax,       \* per call: its maxRetries
    kAttempt,   \* per call: its loop variable attempt
    kTried,     \* per call: what each of its apiRequest invocations did
    kLast,      \* per call: its lastError
    kOutcome    \* per call: what it returned or threw

retryVars == <<apiKey, pc, options, maxRetries, retryDelay, attempt, lastError, calls,
               sent, fetched, tried, flags, sleeps, outcome>>

uploadVars == <<upc, upConfig, upStream, upReq, upStatus, upData, upLog, upPromise>>

queryVars == <<qOps, qParams, qLog, qBuilt>>

bodyVars == <<bHeap, bExpected, bRefs, bSets, bMutations, bLast, bBefore, bResult,
              hResult, hPosted>>

wrapVars == <<wc, wValue, wOnce, wTwice, wDecision>>

errVars == <<eEndpoint, eResponse, eRaised>>

configVars == <<env, cachedConfig, cFirst, cCall>>

toolVars == <<tpc, tHelper, tCalls, tResult>>

callVars == <<kpc, kMax, kAttempt, kTried, kLast, kOutcome>>

vars == <<retryVars, uploadVars, queryVars, bodyVars, wrapVars, errVars, configVars, toolVars, callVars>>

\* What an operation of one component leaves alone: the other components.
exceptRetry == <<uploadVars, queryVars, bodyVars, wrapVars, errVars, configVars, toolVars, callVars>>
exceptUpload == <<retryVars, queryVars, bodyVars, wrapVars, errVars, configVars, toolVars, callVars>>
exceptQuery == <<retryVars, uploadVars, bodyVars, wrapVars, errVars, configVars, toolVars, callVars>>
exceptBody == <<retryVars, uploadVars, queryVars, wrapVars, errVars, configVars, toolVars, callVars>>
exceptWrap == <<retryVars, uploadVars, queryVars, bodyVars, errVars, configVars, toolVars, callVars>>
exceptErr == <<retryVars, uploadVars, queryVars, bodyVars, wrapVars, configVars, toolVars, callVars>>
exceptConfig == <<retryVars, uploadVars, queryVars, bodyVars, wrapVars, errVars, toolVars, callVars>>
exceptTool == <<retryVars, uploadVars, queryVars, bodyVars, wrapVars, errVars, configVars, callVars>>
exceptCall == <<retryVars, uploadVars, queryVars, bodyVars, wrapVars, errVars, configVars, toolVars>>

----------------------------------------------------------------------------
(* Bounds of the model *)

MaxRetriesBound == 2

----------------------------------------------------------------------------
(* JavaScript values *)

\* A JavaScript value that can be a request body: undefined, a number, a
\* boolean, a string, or the object {name: s}.
JsUndefined == [t |-> "undefined", n |-> 0, b |-> FALSE, s |-> ""]
JsNumber(k) == [t |-> "number", n |-> k, b |-> FALSE, s |-> ""]
JsBoolean(v) == [t |-> "boolean", n |-> 0, b |-> v, s |-> ""]
JsString(str) == [t |-> "string", n |-> 0, b |-> FALSE, s |-> str]
JsObject(str) == [t |-> "object", n |-> 0, b |-> FALSE, s |-> str]
JsNull == [t |-> "null", n |-> 0, b |-> FALSE, s |-> ""]

\* JavaScript truthiness, as used by `if (body ...)`.
Truthy(v) ==
    CASE v.t = "undefined" -> FALSE
      [] v.t = "null" -> FALSE
      [] v.t = "number" -> v.n # 0
      [] v.t = "boolean" -> v.b
      [] v.t = "string" -> v.s # ""
      [] OTHER -> TRUE

\* JSON.stringify of a number, a boolean or the object {name: s}.
JSONstringify(v) ==
    CASE v.t = "number" -> ToString(v.n)
      [] v.t = "boolean" -> IF v.b THEN "true" ELSE "false"
      [] v.t = "string" -> "\"" \o v.s \o "\""
      [] OTHER -> "{\"name\":\"" \o v.s \o "\"}"

\* A plain object (a header map, a partial configuration): a function from
\* its keys to their values.  EmptyObject is {}.
EmptyObject == [k \in {} |-> ""]

\* Object spread {...a, ...b}: the keys of b replace those of a.
Spread(a, b) ==
    [k \in DOMAIN a \cup DOMAIN b |-> IF k \in DOMAIN b THEN b[k] ELSE a[k]]

\* obj[key] read as a condition: a missing key or an empty string is falsy.
HeaderTruthy(h, key) == key \in DOMAIN h /\ h[key] # ""

----------------------------------------------------------------------------
(* Numbers that may be undefined or NaN *)

NumUndefined == [def |-> FALSE, nan |-> FALSE, n |-> 0]
NumNaN == [def |-> TRUE, nan |-> TRUE, n |-> 0]
Num(k) == [def |-> TRUE, nan |-> FALSE, n |-> k]

----------------------------------------------------------------------------
(* The error classes.  An error is a record; `at` is the identity of the   *)
(* error object: the index of the apiRequest invocation that created it.   *)

ZeroDriveError(code, statusCode, retryable, at) ==
    [zd |-> TRUE, name |-> "ZeroDriveError", code |-> code, statusCode |-> statusCode,
     retryable |-> retryable, retryAfter |-> NumUndefined, at |-> at]

ValidationError(at) ==
    [ZeroDriveError("VALIDATION_ERROR", 400, FALSE, at) EXCEPT !.name = "ValidationError"]

AuthenticationError(at) ==
    [ZeroDriveError("AUTHENTICATION_ERROR", 401, FALSE, at)
        EXCEPT !.name = "AuthenticationError"]

AuthorizationError(at) ==
    [ZeroDriveError("AUTHORIZATION_ERROR", 403, FALSE, at)
        EXCEPT !.name = "AuthorizationError"]

NotFoundError(at) ==
    [ZeroDriveError("NOT_FOUND", 404, FALSE, at) EXCEPT !.name = "NotFoundError"]

ConflictError(at) ==
    [ZeroDriveError("CONFLICT", 409, FALSE, at) EXCEPT !.name = "ConflictError"]

RateLimitError(retryAfter, at) ==
    [ZeroDriveError("RATE_LIMIT_EXCEEDED", 429, TRUE, at)
        EXCEPT !.name = "RateLimitError", !.retryAfter = retryAfter]

ApiError(statusCode, at) ==
    [ZeroDriveError("API_ERROR", statusCode, statusCode >= 500 \/ statusCode = 429, at)
        EXCEPT !.name = "ApiError"]

NetworkError(at) ==
    [ZeroDriveError("NETWORK_ERROR", 503, TRUE, at) EXCEPT !.name = "NetworkError"]

\* A thrown value that is not one of the error classes above: `isError` says
\* whether it is an Error instance, `name` is its class, `words` its message.
Foreign(name, isError, words) ==
    [zd |-> FALSE, name |-> name, isError |-> isError, words |-> words]

\* The value `undefined`, as a thrown value.
ThrownUndefined == Foreign("undefined", FALSE, <<>>)

isZeroDriveError(error) == error.zd

isRetryableErrorAlways(error) == TRUE

isRetryableErrorByStatus(error) ==
    IF isZeroDriveError(error) THEN error.statusCode >= 500 ELSE FALSE

isRetryableError(error) == IF isZeroDriveError(error) THEN error.retryable ELSE FALSE

\* error instanceof RateLimitError / ApiError / NetworkError: none of the
\* three classes has a subclass, so the class is told by the name.
InstanceOf(error, class) == isZeroDriveError(error) /\ error.name = class

shouldRetry(error, attemptNo, maxAttempts) ==
    IF attemptNo >= maxAttempts THEN FALSE
    ELSE IF InstanceOf(error, "RateLimitError") THEN TRUE
    ELSE IF InstanceOf(error, "ApiError") THEN error.statusCode >= 500
    ELSE IF InstanceOf(error, "NetworkError") THEN TRUE
    ELSE FALSE

wrapErrorAlwaysNew(error, at) == ZeroDriveError("INTERNAL_ERROR", 500, FALSE, at)

wrapError(error, at) ==
    IF isZeroDriveError(error) THEN error
    ELSE ZeroDriveError("INTERNAL_ERROR", 500, FALSE, at)

\* error.message.includes(word)
MessageIncludes(error, word) == \E i \in 1..Len(error.words) : error.words[i] = word

----------------------------------------------------------------------------
(* parseInt(string, 10).  A string is a sequence of one-character strings. *)

DigitChars == <<"0", "1", "2", "3", "4", "5", "6", "7", "8", "9">>

IsDigit(c) == \E i \in 1..Len(DigitChars) : DigitChars[i] = c

DigitValue(c) == (CHOOSE i \in 1..Len(DigitChars) : DigitChars[i] = c) - 1

RECURSIVE SkipWhitespace(_, _)
SkipWhitespace(chars, i) ==
    IF i <= Len(chars) /\ chars[i] = " " THEN SkipWhitespace(chars, i + 1) ELSE i

RECURSIVE ParseDigits(_, _, _)
ParseDigits(chars, i, acc) ==
    IF i > Len(chars) \/ ~IsDigit(chars[i]) THEN acc
    ELSE ParseDigits(chars, i + 1, acc * 10 + DigitValue(chars[i]))

parseInt(chars) ==
    LET i == SkipWhitespace(chars, 1)
        signed == i <= Len(chars) /\ chars[i] \in {"+", "-"}
        j == IF signed THEN i + 1 ELSE i
        magnitude == ParseDigits(chars, j, 0)
    IN  IF j > Len(chars) \/ ~IsDigit(chars[j]) THEN NumNaN
        ELSE IF signed /\ chars[i] = "-" THEN Num(0 - magnitude)
        ELSE Num(magnitude)

----------------------------------------------------------------------------
(* What fetch produces: a Response or a thrown value *)

\* response.headers.get(name): null when the header is absent.
HeaderAbsent == [present |-> FALSE, chars |-> <<>>]
HeaderValue(chars) == [present |-> TRUE, chars |-> chars]

\* A header value read as a condition: null and the empty string are falsy.
HeaderValueTruthy(h) == h.present /\ h.chars # <<>>

Response(status, ctype, retryAfter, parses) ==
    [kind |-> "response", status |-> status, ctype |-> ctype,
     retryAfter |-> retryAfter, parses |-> parses]

Rejected(error) == [kind |-> "rejected", error |-> error]

\* response.ok
Ok(response) == response.status >= 200 /\ response.status <= 299

\* contentType?.includes('application/json')
IsJson(response) == response.ctype = "application/json"

----------------------------------------------------------------------------
(* handleErrorResponse and transformApiError *)

\* The retryAfter argument that transformApiError passes: always undefined.
RetryAfterIgnored(response) == NumUndefined

\* retryAfter ? parseInt(retryAfter, 10) : undefined
RetryAfterArgument(response) ==
    IF HeaderValueTruthy(response.retryAfter) THEN parseInt(response.retryAfter.chars)
    ELSE NumUndefined

handleErrorResponse(response, at) ==
    CASE response.status = 400 -> ValidationError(at)
      [] response.status = 401 -> AuthenticationError(at)
      [] response.status = 403 -> AuthorizationError(at)
      [] response.status = 404 -> NotFoundError(at)
      [] response.status = 429 -> RateLimitError(RetryAfterArgument(response), at)
      [] OTHER -> ApiError(response.status, at)

transformApiError(statusCode, at) ==
    CASE statusCode = 400 -> ValidationError(at)
      [] statusCode = 401 -> AuthenticationError(at)
      [] statusCode = 403 -> AuthorizationError(at)
      [] statusCode = 404 -> NotFoundError(at)
      [] statusCode = 429 -> RateLimitError(NumUndefined, at)
      [] statusCode \in {500, 502, 503, 504} -> ApiError(statusCode, at)
      [] OTHER -> ApiError(statusCode, at)

----------------------------------------------------------------------------
(* apiRequest *)

Returned(value) == [kind |-> "return", value |-> value]
Thrown(error) == [kind |-> "throw", error |-> error]
NotYet == [kind |-> "none"]

\* const requestHeaders = { Authorization: `Bearer ${apiKey}`, ...headers }
RequestHeaders(opts, key) == Spread([Authorization |-> "Bearer " \o key], opts.headers)

\* if (body && !requestHeaders['Content-Type']) requestHeaders['Content-Type'] = ...
WithContentType(headers, body) ==
    IF Truthy(body) /\ ~HeaderTruthy(headers, "Content-Type")
    THEN Spread(headers, "Content-Type" :> "application/json")
    ELSE headers

\* if (body) requestInit.body = typeof body === 'string' ? body : JSON.stringify(body)
RequestBody(body) ==
    IF Truthy(body)
    THEN [present |-> TRUE, text |-> IF body.t = "string" THEN body.s ELSE JSONstringify(body)]
    ELSE [present |-> FALSE, text |-> ""]

RequestInit(opts, key) ==
    [kind |-> "request", method |-> opts.method,
     headers |-> WithContentType(RequestHeaders(opts, key), opts.body),
     body |-> RequestBody(opts.body)]

\* The value that response.json() / response.text() / the raw response gives.
Decoded(decoding, response, at) ==
    [decoding |-> decoding, status |-> response.status, at |-> at]

\* The raw-response return placed before the response.ok test.
OnResponseRawFirst(opts, response, at) ==
    IF opts.rawResponse THEN Returned(Decoded("raw", response, at))
    ELSE IF ~Ok(response) THEN Thrown(handleErrorResponse(response, at))
    ELSE IF IsJson(response)
         THEN IF response.parses THEN Returned(Decoded("json", response, at))
              ELSE Thrown(Foreign("SyntaxError", TRUE, <<"Unexpected", "token">>))
    ELSE Returned(Decoded("text", response, at))

\* The try block after fetch has resolved with a response.
OnResponse(opts, response, at) ==
    IF ~Ok(response) THEN Thrown(handleErrorResponse(response, at))
    ELSE IF opts.rawResponse THEN Returned(Decoded("raw", response, at))
    ELSE IF IsJson(response)
         THEN IF response.parses THEN Returned(Decoded("json", response, at))
              ELSE Thrown(Foreign("SyntaxError", TRUE, <<"Unexpected", "token">>))
    ELSE Returned(Decoded("text", response, at))

\* The catch block: what is thrown to the caller for a value thrown in the try block.
OnCatch(error, at) ==
    IF error.zd /\ error.name \in {"ApiError", "NetworkError"} THEN error
    ELSE IF ~error.zd /\ error.name = "TypeError" /\ MessageIncludes(error, "fetch")
         THEN NetworkError(at)
    ELSE wrapError(error, at)

\* One apiRequest invocation whose fetch call produced `fetchResult`.
apiRequest(opts, key, fetchResult, at) ==
    LET inTry == IF fetchResult.kind = "rejected" THEN Thrown(fetchResult.error)
                 ELSE OnResponse(opts, fetchResult, at)
    IN  IF inTry.kind = "throw" THEN Thrown(OnCatch(inTry.error, at)) ELSE inTry

----------------------------------------------------------------------------
(* apiRequestWithRetry *)

DefaultMaxRetries == 3
DefaultRetryDelay == 1000

DEFAULT_CONFIG == [maxRetries |-> DefaultMaxRetries, retryDelay |-> DefaultRetryDelay]

\* const { maxRetries, retryDelay } = { ...DEFAULT_CONFIG, ...config }
ResolveConfig(config) == Spread(DEFAULT_CONFIG, config)

\* attempt <= maxRetries
LoopCondition(i, limit) == i <= limit

\* The break taken one attempt early.
IsLastAttemptEarly(i, limit) == i >= limit - 1

\* attempt === maxRetries
IsLastAttempt(i, limit) == i = limit

\* The loop variable left as it is instead of incremented.
NextAttemptSame(i) == i

\* attempt++
NextAttempt(i) == i + 1

\* lastError kept from the first failure instead of replaced.
RecordErrorFirst(previous, error) == IF previous.zd THEN previous ELSE error

\* lastError = error
RecordError(previous, error) == error

RECURSIVE Pow2(_)
Pow2(k) == IF k <= 0 THEN 1 ELSE 2 * Pow2(k - 1)

\* A delay that does not grow with the attempt.
BackoffDelayFixed(base, i) == base

\* retryDelay * Math.pow(2, attempt)
BackoffDelay(base, i) == base * Pow2(i)

DefaultBaseDelay == 1000
DefaultMaxDelay == 30000

\* calculateRetryDelay(attempt, baseDelay, maxDelay), the draw of Math.random()
\* being percent / 100: jitter = Math.random() * 0.3 * exponentialDelay is
\* (percent * 3 * exponentialDelay) / 1000, and Math.floor of the minimum is
\* taken by the integer division (maxDelay is an integer).
calculateRetryDelay(i, baseDelay, maxDelay, percent) ==
    LET exponentialDelay == baseDelay * Pow2(i)
        floored == exponentialDelay + (percent * 3 * exponentialDelay) \div 1000
    IN  IF floored <= maxDelay THEN floored ELSE maxDelay

----------------------------------------------------------------------------
(* Inputs *)

ApiKeys == {"key-1"}

Methods == {"GET", "POST"}

Bodies ==
    {JsUndefined, JsNumber(0), JsBoolean(FALSE), JsString(""), JsString("raw body"),
     JsObject("X")}

HeaderMaps ==
    {EmptyObject, "Content-Type" :> "text/plain", [Authorization |-> "Basic abc"],
     "X-Custom" :> "1"}

OptionsSet ==
    [method : Methods, body : Bodies, headers : HeaderMaps, rawResponse : BOOLEAN]

ConfigSet ==
    {Spread(m, d) :
        m \in {EmptyObject} \cup {[maxRetries |-> k] : k \in (-1)..MaxRetriesBound},
        d \in {EmptyObject, [retryDelay |-> 10], [retryDelay |-> 20000]}}

Statuses == {200, 204, 304, 400, 401, 403, 404, 409, 429, 500, 502, 503, 504}

ContentTypes == {"application/json", "text/plain"}

RetryAfterHeaders ==
    {HeaderAbsent, HeaderValue(<<>>), HeaderValue(<<"0">>), HeaderValue(<<"3", "0">>),
     HeaderValue(<<"W", "e", "d">>)}

Responses ==
    {Response(st, ct, ra, ps) :
        st \in Statuses, ct \in ContentTypes, ra \in RetryAfterHeaders, ps \in BOOLEAN}

\* Retry-After is read for status 429 only, the content type decides the
\* returned value of a success only, and a body that does not parse matters for
\* a JSON success body only: the other combinations are left out.
ResponseSet ==
    {r \in Responses :
        /\ (r.status # 429 => r.retryAfter = HeaderAbsent)
        /\ (~Ok(r) => IsJson(r))
        /\ (~r.parses => Ok(r) /\ IsJson(r))}

\* Values a failing fetch call throws.
RejectionSet ==
    {Rejected(Foreign("TypeError", TRUE, <<"fetch", "failed">>)),
     Rejected(Foreign("TypeError", TRUE, <<"terminated">>)),
     Rejected(Foreign("AbortError", TRUE, <<"This", "operation", "was", "aborted">>)),
     Rejected(Foreign("Error", TRUE, <<"connect", "ECONNREFUSED">>))}

FetchResults == ResponseSet \cup RejectionSet

----------------------------------------------------------------------------
(* The state machine *)

NoOptions == [method |-> "GET", body |-> JsUndefined, headers |-> EmptyObject,
              rawResponse |-> FALSE]

\* No uploadFile call yet: a regular file and the default timeout.
NoUpload == [path |-> "file", timeout |-> NumUndefined]

\* No shouldRetry call yet.
NoDecision == [made |-> FALSE, attempt |-> 0, maxAttempts |-> 0, retry |-> FALSE]

\* No operation on the RequestBodyBuilder yet.
NoCall == [op |-> "none", key |-> "", value |-> JsUndefined]

\* The environment variables loadConfig reads, and one that is not set.
EnvNames == {"ZERODRIVE_API_KEY", "ZERODRIVE_BASE_URL", "LOG_LEVEL", "NODE_ENV"}
EnvUnset == [set |-> FALSE, v |-> ""]
EnvValue(v) == [set |-> TRUE, v |-> v]

\* No call of the configuration module was made yet.
NoConfigCall == [op |-> "none", key |-> "", fresh |-> FALSE, result |-> NotYet]

\* The apiRequestWithRetry calls that run concurrently.
CallIds == {"a", "b"}

Init ==
    /\ apiKey \in ApiKeys
    /\ pc = "idle"
    /\ options = NoOptions
    /\ maxRetries = DefaultMaxRetries
    /\ retryDelay = DefaultRetryDelay
    /\ attempt = 0
    /\ lastError = ThrownUndefined
    /\ calls = 0
    /\ sent = NotYet
    /\ fetched = NotYet
    /\ tried = NotYet
    /\ flags = <<>>
    /\ sleeps = <<>>
    /\ outcome = NotYet
    /\ upc = "idle"
    /\ upConfig = NoUpload
    /\ upStream = "none"
    /\ upReq = "none"
    /\ upStatus = NumUndefined
    /\ upData = <<>>
    /\ upLog = <<>>
    /\ upPromise = NotYet
    /\ qOps = 0
    /\ qParams = <<>>
    /\ qLog = <<>>
    /\ qBuilt = NotYet
    /\ bHeap = <<EmptyObject>>
    /\ bExpected = EmptyObject
    /\ bRefs = <<>>
    /\ bSets = 0
    /\ bMutations = 0
    /\ bLast = NoCall
    /\ bBefore = EmptyObject
    /\ bResult = NotYet
    /\ hResult = NotYet
    /\ hPosted = <<>>
    /\ wc = "idle"
    /\ wValue = ThrownUndefined
    /\ wOnce = ThrownUndefined
    /\ wTwice = ThrownUndefined
    /\ wDecision = NoDecision
    /\ eEndpoint = ""
    /\ eResponse = NotYet
    /\ eRaised = NotYet
    /\ env = [name \in EnvNames |-> EnvUnset]
    /\ cachedConfig = JsNull
    /\ cFirst = NotYet
    /\ cCall = NoConfigCall
    /\ tpc = "idle"
    /\ tHelper = ""
    /\ tCalls = 0
    /\ tResult = NotYet
    /\ kpc = [c \in CallIds |-> "idle"]
    /\ kMax = [c \in CallIds |-> 0]
    /\ kAttempt = [c \in CallIds |-> 0]
    /\ kTried = [c \in CallIds |-> <<>>]
    /\ kLast = [c \in CallIds |-> ThrownUndefined]
    /\ kOutcome = [c \in CallIds |-> NotYet]

\* A caller invokes apiRequestWithRetry(endpoint, opts, config): the function
\* runs up to its first apiRequest call.
Start(opts, config) ==
    /\ pc = "idle"
    /\ options' = opts
    /\ maxRetries' = ResolveConfig(config).maxRetries
    /\ retryDelay' = ResolveConfig(config).retryDelay
    /\ attempt' = 0
    /\ lastError' = ThrownUndefined
    /\ calls' = 0
    /\ sent' = NotYet
    /\ fetched' = NotYet
    /\ tried' = NotYet
    /\ flags' = <<>>
    /\ sleeps' = <<>>
    /\ IF LoopCondition(0, maxRetries')
       THEN pc' = "attempt" /\ outcome' = NotYet
       ELSE pc' = "done" /\ outcome' = Thrown(ThrownUndefined)
    /\ UNCHANGED apiKey
    /\ UNCHANGED exceptRetry

\* One iteration of the loop: apiRequest is called, its fetch call produces
\* fetchResult, and the try/catch of the loop handles what apiRequest did.
Attempt(fetchResult) ==
    /\ pc = "attempt"
    /\ LET at == calls + 1
           did == apiRequest(options, apiKey, fetchResult, at)
       IN  /\ calls' = at
           /\ sent' = RequestInit(options, apiKey)
           /\ fetched' = fetchResult
           /\ tried' = did
           /\ IF did.kind = "return"
              THEN /\ outcome' = did
                   /\ pc' = "done"
                   /\ UNCHANGED <<lastError, flags, sleeps>>
              ELSE /\ lastError' = RecordError(lastError, did.error)
                   /\ flags' = Append(flags, isRetryableError(did.error))
                   /\ IF ~isRetryableError(did.error)
                      THEN /\ outcome' = Thrown(did.error)
                           /\ pc' = "done"
                           /\ UNCHANGED sleeps
                      ELSE IF IsLastAttempt(attempt, maxRetries)
                      THEN /\ outcome' = Thrown(lastError')
                           /\ pc' = "done"
                           /\ UNCHANGED sleeps
                      ELSE /\ sleeps' = Append(sleeps, BackoffDelay(retryDelay, attempt))
                           /\ pc' = "sleep"
                           /\ UNCHANGED outcome
    /\ UNCHANGED <<apiKey, options, maxRetries, retryDelay, attempt>>
    /\ UNCHANGED exceptRetry

\* The timer of the sleep fires: attempt++ and the loop condition is tested.
Wake ==
    /\ pc = "sleep"
    /\ attempt' = NextAttempt(attempt)
    /\ IF LoopCondition(attempt', maxRetries)
       THEN pc' = "attempt" /\ UNCHANGED outcome
       ELSE pc' = "done" /\ outcome' = Thrown(lastError)
    /\ UNCHANGED <<apiKey, options, maxRetries, retryDelay, lastError, calls, sent,
                   fetched, tried, flags, sleeps>>
    /\ UNCHANGED exceptRetry

Next ==
    \/ \E opts \in OptionsSet, config \in ConfigSet : Start(opts, config)
    \/ \E fetchResult \in FetchResults : Attempt(fetchResult)
    \/ Wake

----------------------------------------------------------------------------
(* Properties of the retry controller *)

AllRetryable(fs) == \A i \in 1..Len(fs) : fs[i]

\* C1: for every maxRetries >= 0 and every sequence of attempt outcomes, one
\* call of apiRequestWithRetry invokes apiRequest at most maxRetries + 1 times.
C1_AtMostMaxRetriesPlusOneAttempts ==
    maxRetries >= 0 => calls <= maxRetries + 1

\* The budget of a call with maxRetries = 2 is used up: three attempts were made.
C1_Witness ==
    pc = "done" /\ maxRetries = 2 /\ calls = 3 /\ Len(flags) = 3

\* C2: an attempt whose error is not retryable ends the call at once with that
\* very error, whatever budget remains; a 4xx response other than 429 is such
\* an error, so on the first attempt it gives exactly one attempt.
C2_NonRetryableRaisedAtOnce ==
    /\ (tried.kind = "throw" /\ ~tried.error.retryable)
          => (pc = "done" /\ outcome = tried)
    /\ (/\ fetched.kind = "response"
        /\ fetched.status \in 400..499
        /\ fetched.status # 429)
          => (/\ tried.kind = "throw"
              /\ ~tried.error.retryable
              /\ pc = "done"
              /\ outcome = tried
              /\ (Len(flags) = 1 => calls = 1))

\* A 400 on the first attempt of a call that had three retries left.
C2_Witness ==
    /\ pc = "done"
    /\ maxRetries = 3
    /\ calls = 1
    /\ fetched.kind = "response" /\ fetched.status = 400
    /\ outcome.kind = "throw" /\ outcome.error.name = "ValidationError"

C4_LastErrorRaisedAfterExhaustion ==
    (maxRetries >= 0 /\ AllRetryable(flags) /\ Len(flags) = calls)
        => IF calls <= maxRetries THEN pc # "done"
           ELSE /\ pc = "done"
                /\ calls = maxRetries + 1
                /\ tried.kind = "throw"
                /\ outcome = Thrown(tried.error)
                /\ outcome.error.at = maxRetries + 1

\* maxRetries = 3 and a fourth 500 response: the fourth ApiError is raised.
C4_Witness ==
    /\ pc = "done"
    /\ maxRetries = 3
    /\ calls = 4
    /\ AllRetryable(flags) /\ Len(flags) = 4
    /\ fetched.kind = "response" /\ fetched.status = 500
    /\ outcome.kind = "throw"
    /\ outcome.error.name = "ApiError" /\ outcome.error.at = 4

----------------------------------------------------------------------------
(* Properties of the classifier and of apiRequest *)

\* The table of the error taxonomy: status -> class, retryable.
TableStatuses == {400, 401, 403, 404, 409, 429, 500, 502, 503, 504}

TableKind(status) ==
    CASE status = 400 -> "ValidationError"
      [] status = 401 -> "AuthenticationError"
      [] status = 403 -> "AuthorizationError"
      [] status = 404 -> "NotFoundError"
      [] status = 409 -> "ConflictError"
      [] status = 429 -> "RateLimitError"
      [] OTHER -> "ApiError"

TableRetryable(status) == status \in {429, 500, 502, 503, 504}

\* C5: for every status of the table, the error raised for a response with
\* that status, and the one transformApiError builds for it, has the class and
\* the retryable flag the table gives.
C5_ClassifiedAsInTable ==
    (fetched.kind = "response" /\ fetched.status \in TableStatuses)
        => /\ tried.kind = "throw"
           /\ tried.error.name = TableKind(fetched.status)
           /\ tried.error.retryable = TableRetryable(fetched.status)
           /\ transformApiError(fetched.status, calls).name = TableKind(fetched.status)
           /\ transformApiError(fetched.status, calls).retryable
                 = TableRetryable(fetched.status)

\* C6: whatever value a failing fetch call throws, apiRequest raises a
\* NetworkError, which is retryable.
C6_TransportFaultIsNetworkError ==
    fetched.kind = "rejected"
        => /\ tried.kind = "throw"
           /\ tried.error.name = "NetworkError"
           /\ tried.error.code = "NETWORK_ERROR"
           /\ tried.error.retryable

C8_AuthorizationIsBearerCredential ==
    sent.kind = "request"
        => /\ "Authorization" \in DOMAIN sent.headers
           /\ sent.headers["Authorization"] = "Bearer " \o apiKey

\* C9: a body that is present (anything but undefined) and no Content-Type from
\* the caller give Content-Type: application/json and the wire body: the string
\* itself, or the JSON encoding of another value; a Content-Type from the caller
\* is sent as given.
C9_BodyPresentIsSentAsJson ==
    sent.kind = "request"
        => /\ (options.body.t # "undefined" /\ "Content-Type" \notin DOMAIN options.headers)
                 => /\ "Content-Type" \in DOMAIN sent.headers
                    /\ sent.headers["Content-Type"] = "application/json"
                    /\ sent.body.present
                    /\ sent.body.text = IF options.body.t = "string" THEN options.body.s
                                        ELSE JSONstringify(options.body)
           /\ "Content-Type" \in DOMAIN options.headers
                 => sent.headers["Content-Type"] = options.headers["Content-Type"]

\* The value of a string of decimal digits, read from its last digit.
IsDecimal(chars) == chars # <<>> /\ \A i \in 1..Len(chars) : IsDigit(chars[i])

RECURSIVE DecimalValue(_)
DecimalValue(chars) ==
    IF chars = <<>> THEN 0
    ELSE 10 * DecimalValue(SubSeq(chars, 1, Len(chars) - 1)) + DigitValue(chars[Len(chars)])

----------------------------------------------------------------------------
(* Properties of the retry delay *)

\* Draws of Math.random(), in percent: both ends and the middle of [0, 1).
RandomPercents == {0, 50, 99}

\* calculateRetryDelay at attempts i and i + 1 of one policy, for every pair of
\* jitter draws: non-decreasing, and never above the maximum delay.
DelayStepsUpUnderCap(i, baseDelay, maxDelay) ==
    \A p \in RandomPercents, q \in RandomPercents :
        /\ calculateRetryDelay(i, baseDelay, maxDelay, p)
              <= calculateRetryDelay(i + 1, baseDelay, maxDelay, q)
        /\ calculateRetryDelay(i + 1, baseDelay, maxDelay, q) <= maxDelay
        /\ calculateRetryDelay(i, baseDelay, maxDelay, p) <= maxDelay

\* C11: the retry delay is non-decreasing in the attempt and never above the
\* maximum delay, for every jitter draw: for calculateRetryDelay, and for the
\* delays apiRequestWithRetry sleeps (the maximum being the policy's default).
C11_DelayNonDecreasingAndCapped ==
    /\ DelayStepsUpUnderCap(attempt, DefaultBaseDelay, DefaultMaxDelay)
    /\ retryDelay > 0 => DelayStepsUpUnderCap(attempt, retryDelay, DefaultMaxDelay)
    /\ \A i \in 1..Len(sleeps), j \in 1..Len(sleeps) : i < j => sleeps[i] <= sleeps[j]
    /\ \A i \in 1..Len(sleeps) : sleeps[i] <= DefaultMaxDelay

\* calculateRetryDelay alone, at the attempt and base delay of the retry loop.
CalculateRetryDelayStepsUp ==
    /\ DelayStepsUpUnderCap(attempt, DefaultBaseDelay, DefaultMaxDelay)
    /\ retryDelay > 0 => DelayStepsUpUnderCap(attempt, retryDelay, DefaultMaxDelay)

----------------------------------------------------------------------------
(* uploadFile: the streaming upload.  The path of the call is known by its  *)
(* kind on the file system; the response is a status and the chunks of its  *)
(* body; the promise uploadFile returns is settled by the callbacks of the  *)
(* request, the response and the timer, which run one at a time.            *)

FileOperationError(code, at) ==
    [ZeroDriveError(code, 400, FALSE, at) EXCEPT !.name = "FileOperationError"]

PathKinds == {"missing", "directory", "file"}

\* fs.existsSync(absolutePath)
existsSync(path) == path # "missing"

\* fs.statSync(absolutePath).isFile()
isFile(path) == path = "file"

validateFilePathExistsOnly(path, at) ==
    IF ~existsSync(path) THEN Thrown(FileOperationError("FILE_NOT_FOUND", at))
    ELSE Returned(path)

validateFilePath(path, at) ==
    IF ~existsSync(path) THEN Thrown(FileOperationError("FILE_NOT_FOUND", at))
    ELSE IF ~isFile(path) THEN Thrown(FileOperationError("INVALID_FILE_TYPE", at))
    ELSE Returned(path)

\* The message validateFilePath gives the error of each code.
FileErrorMessage(code) ==
    IF code = "FILE_NOT_FOUND" THEN "File not found" ELSE "Path is not a file"

DefaultUploadTimeout == 120000

\* const { timeout = 120000 } = config
UploadTimeout(config) ==
    IF config.timeout.def THEN config.timeout.n ELSE DefaultUploadTimeout

\* The promise: pending is NotYet.
PromiseResolved(value) == [kind |-> "resolve", value |-> value]
PromiseRejected(error, message) == [kind |-> "reject", error |-> error, message |-> message]

SettleLast(promise, settlement) == settlement

\* A promise whose resolved value a later rejection replaces.
SettleRejectionWins(promise, settlement) ==
    IF promise = NotYet \/ settlement.kind = "reject" THEN settlement ELSE promise

\* resolve(...) / reject(...): only the first call settles the promise.
Settle(promise, settlement) == IF promise = NotYet THEN settlement ELSE promise

\* responseData += chunk.toString(), over all the chunks received
RECURSIVE Concat(_)
Concat(chunks) == IF chunks = <<>> THEN "" ELSE Head(chunks) \o Concat(Tail(chunks))

\* The texts of the model JSON.parse accepts.
JsonTexts == {"{}"}

\* JSON.parse(responseData)
JSONparse(text) ==
    IF text \in JsonTexts THEN Returned(JsObject(text))
    ELSE Thrown(Foreign("SyntaxError", TRUE, <<"Unexpected", "token">>))

\* const statusCode = res.statusCode ?? 500
StatusCode(status) == IF status.def THEN status.n ELSE 500

\* if (statusCode >= 400)
IsFailureStatus(statusCode) == statusCode >= 400

UploadFailure(text) == [success |-> FALSE, error |-> text]
UploadSuccess(data) == [success |-> TRUE, data |-> data]

\* The 'end' handler of the response: the UploadResponse it resolves with.
OnEnd(status, chunks) ==
    LET statusCode == StatusCode(status)
        responseData == Concat(chunks)
        parsedData == JSONparse(responseData)
    IN  IF IsFailureStatus(statusCode)
        THEN UploadFailure("Upload failed with status " \o ToString(statusCode)
                            \o ": " \o responseData)
        ELSE IF parsedData.kind = "return" THEN UploadSuccess(parsedData.value)
        ELSE UploadSuccess(JsString(responseData))

\* reject(new NetworkError(`Upload timeout after ${timeout}ms`))
TimeoutRejection(timeout, at) ==
    PromiseRejected(NetworkError(at), "Upload timeout after " \o ToString(timeout) \o "ms")

MaxChunks == 2

UploadConfigs ==
    {[path |-> p, timeout |-> t] : p \in PathKinds, t \in {NumUndefined, Num(5000)}}

UploadStatuses ==
    {NumUndefined} \cup {Num(k) : k \in {200, 201, 204, 301, 304, 400, 404, 500}}

BodyChunks == {"{", "}", "x"}

\* uploadFile(config) runs up to the promise it returns: the path is
\* validated, then the read stream is created, then the form is submitted
\* and the timer is set.
Upload(config) ==
    /\ upc = "idle"
    /\ upConfig' = config
    /\ LET checked == validateFilePath(config.path, 0)
       IN  IF checked.kind = "throw"
           THEN /\ upPromise' = PromiseRejected(checked.error,
                                                FileErrorMessage(checked.error.code))
                /\ upc' = "over"
                /\ UNCHANGED <<upStream, upReq>>
           ELSE /\ upStream' = "open"
                /\ upReq' = "open"
                /\ upc' = "pending"
                /\ upPromise' = NotYet
    /\ UNCHANGED <<upStatus, upData, upLog>>
    /\ UNCHANGED exceptUpload

\* The file has been read to its end: the read stream closes itself.
FileRead ==
    /\ upStream = "open"
    /\ upReq = "open"
    /\ upStream' = "closed"
    /\ UNCHANGED <<upc, upConfig, upReq, upStatus, upData, upLog, upPromise>>
    /\ UNCHANGED exceptUpload

\* The submit callback runs with an error: the request failed before any
\* response (also the error a destroyed request emits).
SubmitError ==
    /\ upc = "pending"
    /\ upLog' = Append(upLog, "submit-error")
    /\ upPromise' = Settle(upPromise,
                           PromiseRejected(NetworkError(Len(upLog) + 1), "Upload failed"))
    /\ upReq' = IF upReq = "open" THEN "closed" ELSE upReq
    /\ upc' = "over"
    /\ UNCHANGED <<upConfig, upStream, upStatus, upData>>
    /\ UNCHANGED exceptUpload

\* The submit callback runs with the response: its listeners are registered.
ResponseArrives(status) ==
    /\ upc = "pending"
    /\ upReq = "open"
    /\ upStatus' = status
    /\ upc' = "response"
    /\ UNCHANGED <<upConfig, upStream, upReq, upData, upLog, upPromise>>
    /\ UNCHANGED exceptUpload

\* res.on('data')
ResponseData(chunk) ==
    /\ upc = "response"
    /\ upReq = "open"
    /\ Len(upData) < MaxChunks
    /\ upData' = Append(upData, chunk)
    /\ UNCHANGED <<upc, upConfig, upStream, upReq, upStatus, upLog, upPromise>>
    /\ UNCHANGED exceptUpload

\* res.on('end')
ResponseEnd ==
    /\ upc = "response"
    /\ upLog' = Append(upLog, "end")
    /\ upPromise' = Settle(upPromise, PromiseResolved(OnEnd(upStatus, upData)))
    /\ upc' = "over"
    /\ UNCHANGED <<upConfig, upStream, upReq, upStatus, upData>>
    /\ UNCHANGED exceptUpload

\* res.on('error')
ResponseError ==
    /\ upc = "response"
    /\ upLog' = Append(upLog, "response-error")
    /\ upPromise' = Settle(upPromise,
                           PromiseRejected(NetworkError(Len(upLog) + 1),
                                           "Upload response error"))
    /\ upReq' = IF upReq = "open" THEN "closed" ELSE upReq
    /\ upc' = "over"
    /\ UNCHANGED <<upConfig, upStream, upStatus, upData>>
    /\ UNCHANGED exceptUpload

\* The callback of req.setTimeout runs: req.destroy(), then reject.
Timeout ==
    /\ upc \in {"pending", "response", "over"}
    /\ upReq = "open"
    /\ upReq' = "destroyed"
    /\ upLog' = Append(upLog, "timeout")
    /\ upPromise' = Settle(upPromise,
                           TimeoutRejection(UploadTimeout(upConfig), Len(upLog) + 1))
    /\ UNCHANGED <<upc, upConfig, upStream, upStatus, upData>>
    /\ UNCHANGED exceptUpload

UploadNext ==
    \/ \E config \in UploadConfigs : Upload(config)
    \/ FileRead
    \/ SubmitError
    \/ \E status \in UploadStatuses : ResponseArrives(status)
    \/ \E chunk \in BodyChunks : ResponseData(chunk)
    \/ ResponseEnd
    \/ ResponseError
    \/ Timeout

----------------------------------------------------------------------------
(* Properties of the upload *)

\* C12: when the path of an upload does not exist or is not a regular file,
\* uploadFile raises a FileOperationError (FILE_NOT_FOUND for a missing path,
\* INVALID_FILE_TYPE otherwise), creates no request and opens no file stream,
\* and none of the callbacks of a request ever runs.
C12_InvalidPathRaisesBeforeAnyRequest ==
    (upc # "idle" /\ upConfig.path # "file") =>
        /\ upPromise.kind = "reject"
        /\ upPromise.error.name = "FileOperationError"
        /\ upConfig.path = "missing" => upPromise.error.code = "FILE_NOT_FOUND"
        /\ upConfig.path = "directory" => upPromise.error.code = "INVALID_FILE_TYPE"
        /\ upReq = "none"
        /\ upStream = "none"
        /\ upLog = <<>>

C12_Witness ==
    /\ upc = "over"
    /\ upConfig.path = "directory"
    /\ upPromise.kind = "reject"
    /\ upReq = "none"

\* C13: an upload whose response ends, before anything else settles the call,
\* resolves (it does not raise); the result has success = true exactly for the
\* statuses 200..299, and a result with success = false has an error text that
\* ends with the response body.
C13_Non2xxResolvesAsFailure ==
    (upLog # <<>> /\ upLog[1] = "end") =>
        /\ upPromise.kind = "resolve"
        /\ upPromise.value.success
             = (StatusCode(upStatus) >= 200 /\ StatusCode(upStatus) <= 299)
        /\ ~upPromise.value.success =>
             upPromise.value.error
               = "Upload failed with status " \o ToString(StatusCode(upStatus))
                   \o ": " \o Concat(upData)

\* C14: when the timeout callback runs before any other callback has settled
\* the upload, the request is destroyed and the promise is rejected with a
\* NetworkError whose message names the timeout, whatever runs afterwards.
C14_TimeoutFirstRejectsWithNetworkError ==
    (upLog # <<>> /\ upLog[1] = "timeout") =>
        /\ upReq = "destroyed"
        /\ upPromise.kind = "reject"
        /\ upPromise.error.name = "NetworkError"
        /\ upPromise.message
             = "Upload timeout after " \o ToString(UploadTimeout(upConfig)) \o "ms"

C14_Witness ==
    /\ Len(upLog) = 2
    /\ upLog[1] = "timeout"
    /\ upLog[2] = "end"
    /\ StatusCode(upStatus) = 200
    /\ upPromise.kind = "reject"

----------------------------------------------------------------------------
(* QueryBuilder: the query parameters are the list of (name, value) pairs   *)
(* of its URLSearchParams.                                                  *)

\* String(value) of a number, a boolean or a string
JsToString(v) ==
    CASE v.t = "number" -> ToString(v.n)
      [] v.t = "boolean" -> (IF v.b THEN "true" ELSE "false")
      [] v.t = "string" -> v.s
      [] OTHER -> v.t

\* left ?? undefined
NullishToUndefined(v) == IF v = JsNull THEN JsUndefined ELSE v

RECURSIVE WithoutName(_, _)
WithoutName(params, key) ==
    IF params = <<>> THEN <<>>
    ELSE IF Head(params)[1] = key THEN WithoutName(Tail(params), key)
    ELSE <<Head(params)>> \o WithoutName(Tail(params), key)

RECURSIVE URLSearchParamsSet(_, _, _)
URLSearchParamsSet(params, key, value) ==
    IF params = <<>> THEN <<<<key, value>>>>
    ELSE IF Head(params)[1] = key
         THEN <<<<key, value>>>> \o WithoutName(Tail(params), key)
    ELSE <<Head(params)>> \o URLSearchParamsSet(Tail(params), key, value)

\* this.params.append(key, value)
URLSearchParamsAppend(params, key, value) == Append(params, <<key, value>>)

\* The application/x-www-form-urlencoded serialisation of the names and
\* values of the model: a space becomes +, & becomes %26.
UrlEncode(str) ==
    CASE str = "a b" -> "a+b"
      [] str = "a&b" -> "a%26b"
      [] OTHER -> str

\* this.params.toString()
RECURSIVE URLSearchParamsToString(_)
URLSearchParamsToString(params) ==
    IF params = <<>> THEN ""
    ELSE LET pair == UrlEncode(Head(params)[1]) \o "=" \o UrlEncode(Head(params)[2])
         IN  IF Tail(params) = <<>> THEN pair
             ELSE pair \o "&" \o URLSearchParamsToString(Tail(params))

appendIfDefined(params, key, value) ==
    IF value # JsUndefined /\ value # JsNull /\ value # JsString("")
    THEN URLSearchParamsAppend(params, key, value.s)
    ELSE params

appendNumber(params, key, value) ==
    IF value # JsUndefined /\ value # JsNull
    THEN URLSearchParamsAppend(params, key, JsToString(value))
    ELSE params

appendBooleanIfTruthy(params, key, value) ==
    IF Truthy(value) THEN URLSearchParamsAppend(params, key, JsToString(value))
    ELSE params

appendBoolean(params, key, value) ==
    IF value # JsUndefined
    THEN URLSearchParamsAppend(params, key, JsToString(value))
    ELSE params

\* An optional object argument: `given` is false for undefined.
NotGiven == [given |-> FALSE]

appendPagination(params, p) ==
    IF p.given
    THEN appendNumber(appendNumber(params, "limit", p.limit), "offset", p.offset)
    ELSE params

appendSort(params, p) ==
    IF p.given
    THEN appendIfDefined(appendIfDefined(params, "sortBy", p.sortBy),
                         "sortOrder", p.sortOrder)
    ELSE params

appendFileFilters(params, filters) ==
    LET p1 == appendIfDefined(params, "folderId", NullishToUndefined(filters.folderId))
        p2 == appendBoolean(p1, "includeSubfolders", filters.includeSubfolders)
        p3 == appendBoolean(p2, "starred", filters.starred)
        p4 == appendBoolean(p3, "shared", filters.shared)
        p5 == appendBoolean(p4, "trashed", filters.trashed)
    IN  appendIfDefined(p5, "search", filters.search)

appendFolderFilters(params, filters) ==
    LET p1 == appendIfDefined(params, "folderId", NullishToUndefined(filters.folderId))
        p2 == appendIfDefined(p1, "parentId", NullishToUndefined(filters.parentId))
        p3 == appendBoolean(p2, "starred", filters.starred)
        p4 == appendBoolean(p3, "shared", filters.shared)
        p5 == appendBoolean(p4, "trashed", filters.trashed)
    IN  appendIfDefined(p5, "search", filters.search)

appendWorkspaceFilters(params, filters) ==
    LET p1 == appendIfDefined(params, "folderId", NullishToUndefined(filters.folderId))
        p2 == appendIfDefined(p1, "parentId", NullishToUndefined(filters.parentId))
        p3 == appendBoolean(p2, "starred", filters.starred)
        p4 == appendBoolean(p3, "trashed", filters.trashed)
    IN  appendIfDefined(p4, "search", filters.search)

\* QueryBuilder.from(params): the loop over Object.entries(params), entries
\* being the list of (key, value) of the object.
RECURSIVE FromEntries(_, _)
FromEntries(params, entries) ==
    IF entries = <<>> THEN params
    ELSE LET key == Head(entries).key
             value == Head(entries).value
             appended ==
                 IF value = JsUndefined \/ value = JsNull THEN params
                 ELSE IF value.t = "boolean" THEN appendBoolean(params, key, value)
                 ELSE IF value.t = "number" THEN appendNumber(params, key, value)
                 ELSE appendIfDefined(params, key, value)
         IN  FromEntries(appended, Tail(entries))

\* The values an operation was handed, key by key, in the order it uses them.
Supply(key, value) == [key |-> key, value |-> value]

PaginationSupplies(p) ==
    IF p.given THEN <<Supply("limit", p.limit), Supply("offset", p.offset)>> ELSE <<>>

SortSupplies(p) ==
    IF p.given THEN <<Supply("sortBy", p.sortBy), Supply("sortOrder", p.sortOrder)>>
    ELSE <<>>

FileFilterSupplies(f) ==
    <<Supply("folderId", f.folderId), Supply("includeSubfolders", f.includeSubfolders),
      Supply("starred", f.starred), Supply("shared", f.shared),
      Supply("trashed", f.trashed), Supply("search", f.search)>>

FolderFilterSupplies(f) ==
    <<Supply("folderId", f.folderId), Supply("parentId", f.parentId),
      Supply("starred", f.starred), Supply("shared", f.shared),
      Supply("trashed", f.trashed), Supply("search", f.search)>>

WorkspaceFilterSupplies(f) ==
    <<Supply("folderId", f.folderId), Supply("parentId", f.parentId),
      Supply("starred", f.starred), Supply("trashed", f.trashed),
      Supply("search", f.search)>>

MaxAppends == 2

QueryKeys == {"k", "q"}
StringValues == {JsUndefined, JsNull, JsString(""), JsString("a b")}
NumberValues == {JsUndefined, JsNull, JsNumber(0), JsNumber(7)}
BooleanValues == {JsUndefined, JsBoolean(FALSE), JsBoolean(TRUE)}

PaginationSet ==
    {NotGiven,
     [given |-> TRUE, limit |-> JsNumber(0), offset |-> JsUndefined],
     [given |-> TRUE, limit |-> JsNumber(10), offset |-> JsNumber(0)]}

SortSet ==
    {NotGiven,
     [given |-> TRUE, sortBy |-> JsString(""), sortOrder |-> JsString("asc")],
     [given |-> TRUE, sortBy |-> JsString("name"), sortOrder |-> JsUndefined]}

FileFilterSet ==
    {[folderId |-> JsNull, includeSubfolders |-> JsUndefined, starred |-> JsBoolean(FALSE),
      shared |-> JsUndefined, trashed |-> JsUndefined, search |-> JsString("")],
     [folderId |-> JsString("f1"), includeSubfolders |-> JsBoolean(TRUE),
      starred |-> JsUndefined, shared |-> JsBoolean(FALSE), trashed |-> JsBoolean(FALSE),
      search |-> JsString("a b")]}

FolderFilterSet ==
    {[folderId |-> JsUndefined, parentId |-> JsNull, starred |-> JsBoolean(FALSE),
      shared |-> JsUndefined, trashed |-> JsUndefined, search |-> JsUndefined],
     [folderId |-> JsString("f1"), parentId |-> JsString("f0"), starred |-> JsBoolean(TRUE),
      shared |-> JsBoolean(FALSE), trashed |-> JsUndefined, search |-> JsString("")]}

WorkspaceFilterSet ==
    {[folderId |-> JsNull, parentId |-> JsUndefined, starred |-> JsUndefined,
      trashed |-> JsBoolean(FALSE), search |-> JsString("")],
     [folderId |-> JsString("f1"), parentId |-> JsNull, starred |-> JsBoolean(TRUE),
      trashed |-> JsUndefined, search |-> JsString("a&b")]}

FromSet ==
    {<<>>,
     <<Supply("k", JsBoolean(FALSE)), Supply("q", JsNull)>>,
     <<Supply("k", JsNumber(0)), Supply("q", JsString("")), Supply("s", JsString("a b"))>>,
     <<Supply("k", JsUndefined), Supply("q", JsBoolean(TRUE)), Supply("s", JsNumber(7))>>}

\* One operation on the builder: its parameters become `params`, and the
\* values it was handed are `supplies`.
Appended(params, supplies) ==
    /\ qOps < MaxAppends
    /\ qOps' = qOps + 1
    /\ qParams' = params
    /\ qLog' = qLog \o supplies
    /\ qBuilt' = NotYet
    /\ UNCHANGED exceptQuery

AppendIfDefined(key, value) ==
    Appended(appendIfDefined(qParams, key, value), <<Supply(key, value)>>)

AppendNumber(key, value) ==
    Appended(appendNumber(qParams, key, value), <<Supply(key, value)>>)

AppendBoolean(key, value) ==
    Appended(appendBoolean(qParams, key, value), <<Supply(key, value)>>)

AppendPagination(p) == Appended(appendPagination(qParams, p), PaginationSupplies(p))

AppendSort(p) == Appended(appendSort(qParams, p), SortSupplies(p))

AppendFileFilters(f) == Appended(appendFileFilters(qParams, f), FileFilterSupplies(f))

AppendFolderFilters(f) == Appended(appendFolderFilters(qParams, f), FolderFilterSupplies(f))

AppendWorkspaceFilters(f) ==
    Appended(appendWorkspaceFilters(qParams, f), WorkspaceFilterSupplies(f))

\* QueryBuilder.from(params): a new builder, filled from the entries.
From(entries) ==
    /\ qOps = 0
    /\ Appended(FromEntries(<<>>, entries), entries)

\* build(): the query string of the parameters appended so far.
Build ==
    /\ qBuilt = NotYet
    /\ qBuilt' = Returned(URLSearchParamsToString(qParams))
    /\ UNCHANGED <<qOps, qParams, qLog>>
    /\ UNCHANGED exceptQuery

QueryNext ==
    \/ \E key \in QueryKeys, value \in StringValues : AppendIfDefined(key, value)
    \/ \E key \in QueryKeys, value \in NumberValues : AppendNumber(key, value)
    \/ \E key \in QueryKeys, value \in BooleanValues : AppendBoolean(key, value)
    \/ \E p \in PaginationSet : AppendPagination(p)
    \/ \E p \in SortSet : AppendSort(p)
    \/ \E f \in FileFilterSet : AppendFileFilters(f)
    \/ \E f \in FolderFilterSet : AppendFolderFilters(f)
    \/ \E f \in WorkspaceFilterSet : AppendWorkspaceFilters(f)
    \/ \E entries \in FromSet : From(entries)
    \/ Build

----------------------------------------------------------------------------
(* Properties of QueryBuilder *)

\* A supplied value that is undefined, null or the empty string.
Absent(v) == v = JsUndefined \/ v = JsNull \/ v = JsString("")

\* The text a supplied value is emitted as.
Shown(v) ==
    CASE v = JsBoolean(FALSE) -> "false"
      [] v = JsBoolean(TRUE) -> "true"
      [] v.t = "number" -> ToString(v.n)
      [] OTHER -> v.s

\* The pairs of the supplies that are not absent, in the order of supply.
RECURSIVE Emitted(_)
Emitted(log) ==
    IF log = <<>> THEN <<>>
    ELSE IF Absent(Head(log).value) THEN Emitted(Tail(log))
    ELSE <<<<Head(log).key, Shown(Head(log).value)>>>> \o Emitted(Tail(log))

HasName(params, key) == \E i \in 1..Len(params) : params[i][1] = key

\* The values of the pairs of one name, in order.
RECURSIVE ValuesOf(_, _)
ValuesOf(params, key) ==
    IF params = <<>> THEN <<>>
    ELSE IF Head(params)[1] = key THEN <<Head(params)[2]>> \o ValuesOf(Tail(params), key)
    ELSE ValuesOf(Tail(params), key)

\* C15: after any sequence of append operations, a supply whose value was
\* undefined, null or "" has put no pair in the parameters (a key supplied only
\* such values is not in them), every other supply has put its pair, false and
\* 0 being the texts "false" and "0"; build() is the query string of these
\* pairs, and after a single appendBoolean(k, false) it is exactly "k=false".
C15_AbsentValuesOmittedFalseAndZeroEmitted ==
    /\ qParams = Emitted(qLog)
    /\ \A i \in 1..Len(qLog) :
         (\A j \in 1..Len(qLog) : qLog[j].key = qLog[i].key => Absent(qLog[j].value))
            => ~HasName(qParams, qLog[i].key)
    /\ \A i \in 1..Len(qLog) :
         /\ qLog[i].value = JsBoolean(FALSE)
               => \E n \in 1..Len(qParams) : qParams[n] = <<qLog[i].key, "false">>
         /\ qLog[i].value = JsNumber(0)
               => \E n \in 1..Len(qParams) : qParams[n] = <<qLog[i].key, "0">>
    /\ qBuilt # NotYet => qBuilt.value = URLSearchParamsToString(Emitted(qLog))
    /\ (qBuilt # NotYet /\ qLog = <<Supply("k", JsBoolean(FALSE))>>)
          => qBuilt.value = "k=false"

C15_Witness ==
    /\ qBuilt # NotYet
    /\ Len(qLog) = 2
    /\ Absent(qLog[1].value)
    /\ qLog[2] = Supply("k", JsBoolean(FALSE))
    /\ qBuilt.value = "k=false"

\* C16: when the same key is appended twice with two emitted values, the last
\* write wins: the parameters hold the key exactly once, with the value of the
\* last append.
C16_LastWriteWins ==
    /\ \A i \in 1..Len(qParams), j \in 1..Len(qParams) :
         i # j => qParams[i][1] # qParams[j][1]
    /\ \A key \in {qLog[i].key : i \in 1..Len(qLog)} :
         LET values == ValuesOf(Emitted(qLog), key)
         IN  values # <<>> => ValuesOf(qParams, key) = <<values[Len(values)]>>

\* C16, amended: every emitted append adds its own pair, so a key appended
\* twice is in the parameters twice: the values under a key are the values of
\* its emitted appends, all of them, in the order of the appends, and build()
\* holds one pair for each.
C16_EveryAppendKeepsItsPair ==
    /\ \A key \in {qLog[i].key : i \in 1..Len(qLog)} :
         ValuesOf(qParams, key) = ValuesOf(Emitted(qLog), key)
    /\ (qBuilt # NotYet
          /\ qLog = <<Supply("k", JsNumber(0)), Supply("k", JsNumber(7))>>)
          => qBuilt.value = "k=0&k=7"

C16_Witness ==
    /\ qBuilt # NotYet
    /\ Len(qParams) = 2
    /\ qParams[1][1] = qParams[2][1]
    /\ qParams[1][2] # qParams[2][2]

----------------------------------------------------------------------------
(* RequestBodyBuilder.  An object is a map from its keys to their values;   *)
(* the objects of a builder live in a heap, a list whose positions are the  *)
(* references: position 1 is this.body, and every object build() creates is *)
(* appended.                                                                 *)

MissingRequiredFieldError(fieldName, at) ==
    [context |-> [field |-> fieldName]]
      @@ [ZeroDriveError("MISSING_REQUIRED_FIELD", 400, FALSE, at)
            EXCEPT !.name = "MissingRequiredFieldError"]

\* obj[key] = value
Put(obj, key, value) ==
    [k \in DOMAIN obj \cup {key} |-> IF k = key THEN value ELSE obj[k]]

\* delete obj[key]
Remove(obj, key) == [k \in DOMAIN obj \ {key} |-> obj[k]]

setRequiredUndefinedOnly(body, key, value, at) ==
    IF value = JsUndefined THEN Thrown(MissingRequiredFieldError(key, at))
    ELSE Returned(Put(body, key, value))

\* setRequired: the error it throws, or the body it leaves.
setRequired(body, key, value, at) ==
    IF value = JsUndefined \/ value = JsNull
    THEN Thrown(MissingRequiredFieldError(key, at))
    ELSE Returned(Put(body, key, value))

setOptionalSkipsNull(body, key, value) ==
    IF value # JsUndefined /\ value # JsNull THEN Put(body, key, value) ELSE body

setOptional(body, key, value) ==
    IF value # JsUndefined THEN Put(body, key, value) ELSE body

setOptionalNullable(body, key, value) ==
    IF value # JsUndefined THEN Put(body, key, value) ELSE body

buildSameObject(heap) == [heap |-> heap, ref |-> 1]

\* build(): return { ...this.body }, a new object, whose reference is `ref`.
build(heap) == [heap |-> Append(heap, Spread(EmptyObject, heap[1])), ref |-> Len(heap) + 1]

\* createFolderArgsSchema.parse(rawArgs): name is a non-empty string.
parseCreateFolderArgs(rawArgs) ==
    IF rawArgs.name.t = "string" /\ rawArgs.name.s # "" THEN Returned(rawArgs)
    ELSE Thrown(Foreign("ZodError", TRUE, <<"Value", "cannot", "be", "empty">>))

\* The body handleCreateFolder builds from its arguments, or the error the
\* builder throws.
CreateFolderBody(args, at) ==
    LET named == setRequired(EmptyObject, "name", args.name, at)
    IN  IF named.kind = "throw" THEN named
        ELSE Returned(build(<<setOptional(setOptionalNullable(named.value, "parentId",
                                                               args.parentId),
                                          "description", args.description)>>).heap[2])

\* handleCreateFolder after parseArgs: the body is built, then post is
\* called with it; `posted` are the bodies handed to post, each one fetch.
CreateFolderAfterParse(args, at) ==
    LET body == CreateFolderBody(args, at)
    IN  IF body.kind = "throw" THEN [result |-> body, posted |-> <<>>]
        ELSE [result |-> body, posted |-> <<body.value>>]

handleCreateFolder(rawArgs, at) ==
    LET args == parseCreateFolderArgs(rawArgs)
    IN  IF args.kind = "throw" THEN [result |-> args, posted |-> <<>>]
        ELSE CreateFolderAfterParse(args.value, at)

MaxSets == 2
MaxBuilds == 2
MaxMutations == 1

\* The (key, value) arguments of the setters.
FieldSet ==
    {Supply("name", JsUndefined), Supply("name", JsNull), Supply("name", JsString("docs")),
     Supply("isStarred", JsBoolean(FALSE)), Supply("count", JsNumber(0)),
     Supply("description", JsString(""))}

BodyKeys == {f.key : f \in FieldSet}
BodyValues == {f.value : f \in FieldSet}

\* The keys a caller sets or deletes in an object build() returned to it.
CallerKeys == {"name", "isStarred"}

RawArgsSet ==
    {[name |-> n, parentId |-> p, description |-> d] :
        n \in {JsUndefined, JsString(""), JsString("docs")},
        p \in {JsUndefined, JsNull, JsString("f1")},
        d \in {JsUndefined, JsString("notes")}}

\* A setter of the builder ran: `did` is what it did to this.body, `shadow`
\* what it does to the fields accumulated by the setters alone.
SetterRan(op, key, value, did, shadow) ==
    /\ hResult = NotYet
    /\ bSets < MaxSets
    /\ bSets' = bSets + 1
    /\ bLast' = [op |-> op, key |-> key, value |-> value]
    /\ bBefore' = bHeap[1]
    /\ IF did.kind = "throw"
       THEN /\ bResult' = did
            /\ UNCHANGED <<bHeap, bExpected>>
       ELSE /\ bResult' = Returned(1)
            /\ bHeap' = [bHeap EXCEPT ![1] = did.value]
            /\ bExpected' = shadow.value
    /\ UNCHANGED <<bRefs, bMutations, hResult, hPosted>>
    /\ UNCHANGED exceptBody

SetRequired(key, value) ==
    SetterRan("setRequired", key, value,
              setRequired(bHeap[1], key, value, bSets + 1),
              setRequired(bExpected, key, value, bSets + 1))

SetOptional(key, value) ==
    SetterRan("setOptional", key, value,
              Returned(setOptional(bHeap[1], key, value)),
              Returned(setOptional(bExpected, key, value)))

SetOptionalNullable(key, value) ==
    SetterRan("setOptionalNullable", key, value,
              Returned(setOptionalNullable(bHeap[1], key, value)),
              Returned(setOptionalNullable(bExpected, key, value)))

\* builder.build(): the caller receives the reference of the object.
BuildBody ==
    /\ hResult = NotYet
    /\ Len(bRefs) < MaxBuilds
    /\ bHeap' = build(bHeap).heap
    /\ bRefs' = Append(bRefs, build(bHeap).ref)
    /\ bResult' = Returned(build(bHeap).ref)
    /\ bLast' = [op |-> "build", key |-> "", value |-> JsUndefined]
    /\ bBefore' = bHeap[1]
    /\ UNCHANGED <<bSets, bExpected, bMutations, hResult, hPosted>>
    /\ UNCHANGED exceptBody

\* The caller changes the object one of the build() calls returned to it.
CallerChanged(op, i, key, value, obj) ==
    /\ hResult = NotYet
    /\ bMutations < MaxMutations
    /\ i \in 1..Len(bRefs)
    /\ bMutations' = bMutations + 1
    /\ bHeap' = [bHeap EXCEPT ![bRefs[i]] = obj]
    /\ bLast' = [op |-> op, key |-> key, value |-> value]
    /\ bBefore' = bHeap[1]
    /\ UNCHANGED <<bSets, bExpected, bRefs, bResult, hResult, hPosted>>
    /\ UNCHANGED exceptBody

\* returned[key] = value
CallerSets(i, key, value) ==
    /\ i \in 1..Len(bRefs)
    /\ CallerChanged("caller sets", i, key, value, Put(bHeap[bRefs[i]], key, value))

\* delete returned[key]
CallerDeletes(i, key) ==
    /\ i \in 1..Len(bRefs)
    /\ key \in DOMAIN bHeap[bRefs[i]]
    /\ CallerChanged("caller deletes", i, key, JsUndefined, Remove(bHeap[bRefs[i]], key))

\* The create_folder tool is called: the handler runs up to its request, in
\* a builder of its own.
HandleCreateFolder(rawArgs) ==
    /\ hResult = NotYet
    /\ bLast = NoCall
    /\ hResult' = handleCreateFolder(rawArgs, 1).result
    /\ hPosted' = handleCreateFolder(rawArgs, 1).posted
    /\ UNCHANGED <<bSets, bHeap, bExpected, bRefs, bMutations, bResult, bLast, bBefore>>
    /\ UNCHANGED exceptBody

BodyNext ==
    \/ \E f \in FieldSet : SetRequired(f.key, f.value)
    \/ \E f \in FieldSet : SetOptional(f.key, f.value)
    \/ \E f \in FieldSet : SetOptionalNullable(f.key, f.value)
    \/ BuildBody
    \/ \E i \in 1..MaxBuilds, key \in CallerKeys : CallerSets(i, key, JsString("changed"))
    \/ \E i \in 1..MaxBuilds, key \in CallerKeys : CallerDeletes(i, key)
    \/ \E rawArgs \in RawArgsSet : HandleCreateFolder(rawArgs)

----------------------------------------------------------------------------
(* Properties of RequestBodyBuilder *)

\* Arguments of handleCreateFolder as they would be without the schema: the
\* required name may be undefined or null.
UncheckedArgsSet ==
    {[name |-> n, parentId |-> p, description |-> JsUndefined] :
        n \in {JsUndefined, JsNull, JsString("docs")}, p \in {JsUndefined, JsNull}}

\* C17: setRequired(k, v) with v undefined or null raises a
\* MissingRequiredFieldError whose context.field is k and leaves the body of
\* the builder as it was, whatever the body is; and a create_folder call whose
\* body cannot be built (or whose arguments are rejected) hands nothing to
\* post: no request is made for that call.
C17_MissingRequiredFieldRaisesBeforeRequest ==
    /\ (bLast.op = "setRequired" /\ (bLast.value = JsUndefined \/ bLast.value = JsNull)) =>
          /\ bResult.kind = "throw"
          /\ bResult.error.name = "MissingRequiredFieldError"
          /\ bResult.error.context.field = bLast.key
          /\ bHeap[1] = bBefore
    /\ \A key \in BodyKeys, value \in {JsUndefined, JsNull} :
          /\ setRequired(bHeap[1], key, value, 0).kind = "throw"
          /\ setRequired(bHeap[1], key, value, 0).error.context.field = key
    /\ \A args \in UncheckedArgsSet :
          (args.name = JsUndefined \/ args.name = JsNull) =>
              /\ CreateFolderAfterParse(args, 0).result.kind = "throw"
              /\ CreateFolderAfterParse(args, 0).result.error.context.field = "name"
              /\ CreateFolderAfterParse(args, 0).posted = <<>>
    /\ hResult.kind = "throw" => hPosted = <<>>

C17_Witness ==
    /\ bLast = [op |-> "setRequired", key |-> "name", value |-> JsNull]
    /\ bResult.kind = "throw"
    /\ DOMAIN bHeap[1] # {}

\* C18: setOptional(k, v) and setOptionalNullable(k, v) do the same to every
\* body, for every k and v: nothing when v is undefined, and k is set to v for
\* every other value, false, 0, "" and null included.
C18_OptionalSettersAgree ==
    /\ \A key \in BodyKeys, value \in BodyValues :
          /\ setOptional(bHeap[1], key, value) = setOptionalNullable(bHeap[1], key, value)
          /\ value = JsUndefined => setOptional(bHeap[1], key, value) = bHeap[1]
          /\ value # JsUndefined =>
                setOptional(bHeap[1], key, value) = Put(bHeap[1], key, value)
    /\ bLast.op \in {"setOptional", "setOptionalNullable"} =>
          bHeap[1] = IF bLast.value = JsUndefined THEN bBefore
                     ELSE Put(bBefore, bLast.key, bLast.value)

C18_Witness ==
    /\ bLast = [op |-> "setOptional", key |-> "name", value |-> JsNull]
    /\ "name" \in DOMAIN bBefore
    /\ bBefore["name"] = JsString("docs")
    /\ bHeap[1]["name"] = JsNull

\* C19: every build() returns a new object equal to the accumulated fields:
\* no two calls return the same reference (nor this.body itself), and after
\* the caller has set or deleted keys of returned objects the body of the
\* builder is still the fields its setters accumulated, and so is the object
\* a later build() returns.
C19_BuildReturnsFreshCopy ==
    /\ bHeap[1] = bExpected
    /\ \A i \in 1..Len(bRefs) : bRefs[i] # 1
    /\ \A i \in 1..Len(bRefs), j \in 1..Len(bRefs) : i # j => bRefs[i] # bRefs[j]
    /\ bLast.op = "build" => bHeap[bResult.value] = bExpected

C19_Witness ==
    /\ Len(bRefs) = 2
    /\ bMutations = 1
    /\ bLast.op = "build"
    /\ bHeap[bRefs[1]] # bExpected
    /\ bHeap[bRefs[2]] = bExpected
    /\ DOMAIN bExpected # {}

----------------------------------------------------------------------------
(* wrapError, applied to a caught value and then to its own result.  Every  *)
(* call that creates an error creates a new object: the errors that exist   *)
(* before the calls have the identities ErrorIds, the first call creates    *)
(* its error at FirstWrap and the second at SecondWrap.                     *)

ErrorIds == 1..2
FirstWrap == Cardinality(ErrorIds) + 1
SecondWrap == FirstWrap + 1

\* The classified errors that can be caught.
ClassifiedSet ==
    UNION {{ZeroDriveError("INTERNAL_ERROR", 500, FALSE, at),
            ZeroDriveError("TIMEOUT", 408, TRUE, at),
            ValidationError(at), MissingRequiredFieldError("name", at),
            AuthenticationError(at), AuthorizationError(at), NotFoundError(at),
            ConflictError(at), RateLimitError(NumUndefined, at), RateLimitError(Num(30), at),
            ApiError(400, at), ApiError(429, at), ApiError(500, at), ApiError(502, at),
            NetworkError(at), FileOperationError("FILE_NOT_FOUND", at)} : at \in ErrorIds}

\* The other values that can be caught: Error instances, strings, null,
\* undefined, a plain object.
UnclassifiedSet ==
    {Foreign("Error", TRUE, <<"Original", "message">>),
     Foreign("Error", TRUE, <<>>),
     Foreign("TypeError", TRUE, <<"fetch", "failed">>),
     Foreign("SyntaxError", TRUE, <<"Unexpected", "token">>),
     Foreign("string", FALSE, <<"error">>),
     Foreign("null", FALSE, <<>>),
     Foreign("object", FALSE, <<>>),
     ThrownUndefined}

CaughtSet == ClassifiedSet \cup UnclassifiedSet

\* A value is caught.
Catch(value) ==
    /\ wc = "idle"
    /\ wc' = "caught"
    /\ wValue' = value
    /\ UNCHANGED <<wOnce, wTwice, wDecision>>
    /\ UNCHANGED exceptWrap

\* wrapError(value)
WrapOnce ==
    /\ wc = "caught"
    /\ wc' = "once"
    /\ wOnce' = wrapError(wValue, FirstWrap)
    /\ UNCHANGED <<wValue, wTwice, wDecision>>
    /\ UNCHANGED exceptWrap

\* wrapError(wrapError(value))
WrapTwice ==
    /\ wc = "once"
    /\ wc' = "twice"
    /\ wTwice' = wrapError(wOnce, SecondWrap)
    /\ UNCHANGED <<wValue, wOnce, wDecision>>
    /\ UNCHANGED exceptWrap

MaxAttemptsBound == 2

\* shouldRetry(value, attempt, maxAttempts) is asked about the caught value.
ShouldRetry(attemptNo, maxAttempts) ==
    /\ wc = "caught"
    /\ ~wDecision.made
    /\ wDecision' = [made |-> TRUE, attempt |-> attemptNo, maxAttempts |-> maxAttempts,
                     retry |-> shouldRetry(wValue, attemptNo, maxAttempts)]
    /\ UNCHANGED <<wc, wValue, wOnce, wTwice>>
    /\ UNCHANGED exceptWrap

WrapNext ==
    \/ \E value \in CaughtSet : Catch(value)
    \/ WrapOnce
    \/ WrapTwice
    \/ \E attemptNo \in 0..MaxAttemptsBound, maxAttempts \in 0..MaxAttemptsBound :
          ShouldRetry(attemptNo, maxAttempts)

----------------------------------------------------------------------------
(* Properties of wrapError *)

\* C20: wrapError returns a classified error as the identical object (same
\* identity, hence the same code, status code and retryable flag), and for
\* every caught value wrapError(wrapError(v)) is the very object wrapError(v)
\* returned.
C20_WrapErrorIdempotent ==
    /\ (wc \in {"once", "twice"} /\ isZeroDriveError(wValue)) => wOnce = wValue
    /\ wc = "twice" =>
          /\ wTwice = wOnce
          /\ wTwice.at = wOnce.at
          /\ wTwice.code = wOnce.code
          /\ wTwice.statusCode = wOnce.statusCode
          /\ wTwice.retryable = wOnce.retryable

C20_Witness ==
    /\ wc = "twice"
    /\ ~isZeroDriveError(wValue)
    /\ wOnce.code = "INTERNAL_ERROR"
    /\ wTwice.at = FirstWrap

\* C21: isRetryableError gives the retryable flag a classified error was
\* built with and false for every other value; wrapError of a value that is
\* not classified is an INTERNAL_ERROR that is not retryable; so
\* isRetryableError(wrapError(v)) is true exactly when v is a classified error
\* built retryable.
C21_RetryableIsTheStoredFlag ==
    /\ wc # "idle" =>
          isRetryableError(wValue) = (isZeroDriveError(wValue) /\ wValue.retryable)
    /\ wc \in {"once", "twice"} =>
          /\ ~isZeroDriveError(wValue) =>
                (wOnce.code = "INTERNAL_ERROR" /\ ~wOnce.retryable)
          /\ isRetryableError(wOnce) = (isZeroDriveError(wValue) /\ wValue.retryable)

C21_Witness ==
    /\ wc = "once"
    /\ wValue = Foreign("TypeError", TRUE, <<"fetch", "failed">>)
    /\ wOnce.statusCode = 500
    /\ ~isRetryableError(wOnce)

\* C30: shouldRetry and isRetryableError agree: for every caught value and
\* every attempt < maxAttempts, shouldRetry returns the retryable flag the
\* error was built with; for attempt >= maxAttempts it returns false.
C30_RetryPredicatesAgree ==
    wDecision.made =>
        wDecision.retry = (wDecision.attempt < wDecision.maxAttempts
                             /\ isRetryableError(wValue))

----------------------------------------------------------------------------
(* handleErrorResponse: the message and the context of the error it raises. *)
(* The body of an error response is a JSON object with its message and      *)
(* errors fields, a JSON string, or a text.                                 *)

JsonObjectBody(message, errors) ==
    [form |-> "object", message |-> message, errors |-> errors, text |-> ""]
JsonStringBody(text) ==
    [form |-> "string", message |-> JsUndefined, errors |-> JsUndefined, text |-> text]
TextBody(text) ==
    [form |-> "text", message |-> JsUndefined, errors |-> JsUndefined, text |-> text]

\* A response and its body.
WithBody(response, body) == [body |-> body] @@ response

\* `HTTP ${response.status}`
GenericMessage(status) == "HTTP " \o ToString(status)

\* errorBody: the parsed JSON of a JSON response, the text of another one,
\* the generic message when reading the body throws.
ErrorBodyOf(response) ==
    IF IsJson(response)
    THEN IF response.parses THEN response.body
         ELSE TextBody(GenericMessage(response.status))
    ELSE TextBody(response.body.text)

\* typeof errorBody === 'object' ? errorBody.message
\*                               : errorBody || `HTTP ${response.status}`
MessageOf(errorBody, status) ==
    IF errorBody.form = "object" THEN errorBody.message
    ELSE IF errorBody.text # "" THEN JsString(errorBody.text)
    ELSE JsString(GenericMessage(status))

\* { endpoint, statusCode: response.status, ...(errors of an object body) }
ContextOf(errorBody, endpoint, status) ==
    Spread([endpoint |-> JsString(endpoint), statusCode |-> JsNumber(status)],
           IF errorBody.form = "object" /\ Truthy(errorBody.errors)
           THEN [errors |-> errorBody.errors]
           ELSE EmptyObject)

\* The message of an Error built with `message`: a parameter that is
\* undefined takes its default, which is the empty message where the
\* constructor declares none.
MessageOrDefault(message, default) ==
    IF message = JsUndefined THEN default ELSE message.s

\* retryAfter ? `Rate limit exceeded. Retry after ${retryAfter} seconds`
\*            : 'Rate limit exceeded'
RateLimitMessage(retryAfter) ==
    IF retryAfter.def /\ ~retryAfter.nan /\ retryAfter.n # 0
    THEN "Rate limit exceeded. Retry after " \o ToString(retryAfter.n) \o " seconds"
    ELSE "Rate limit exceeded"

\* The message the constructor called for the status gives the error.
RaisedMessage(response, message) ==
    CASE response.status = 400 -> MessageOrDefault(message, "")
      [] response.status = 401 -> MessageOrDefault(message, "Authentication failed")
      [] response.status = 403 -> MessageOrDefault(message, "Permission denied")
      [] response.status = 404 -> "Resource not found"
      [] response.status = 429 -> RateLimitMessage(RetryAfterArgument(response))
      [] OTHER -> MessageOrDefault(message, "")

\* The context the constructor called for the status gives the error.
RaisedContext(response, context) ==
    IF response.status = 404
    THEN Spread([resourceType |-> JsString("Resource"), resourceId |-> JsUndefined], context)
    ELSE context

ErrorEndpoints == {"/api/files", "/api/folders/f1"}

ErrorStatuses == {st \in Statuses : ~(st >= 200 /\ st <= 299)}

ErrorBodies ==
    {JsonObjectBody(m, e) :
        m \in {JsUndefined, JsString(""), JsString("Name is taken")},
        e \in {JsUndefined, JsObject("name")}}
    \cup {JsonStringBody(""), JsonStringBody("quota exceeded")}
    \cup {TextBody(""), TextBody("Bad Gateway")}

\* A JSON response that parses has a JSON body; a JSON response that does not
\* parse, and a response of another type, have a text.
ErrorResponses ==
    {WithBody(Response(st, ct, ra, ps), b) :
        st \in ErrorStatuses, ct \in ContentTypes,
        ra \in {HeaderAbsent, HeaderValue(<<"3", "0">>)}, ps \in BOOLEAN, b \in ErrorBodies}

ErrorResponseSet ==
    {r \in ErrorResponses :
        /\ (r.status # 429 => r.retryAfter = HeaderAbsent)
        /\ (IsJson(r) /\ r.parses => r.body.form \in {"object", "string"})
        /\ (IsJson(r) /\ ~r.parses => r.body = TextBody("{"))
        /\ (~IsJson(r) => r.parses /\ r.body.form = "text")}

\* apiRequest(endpoint) received a response that is not ok:
\* handleErrorResponse(response, endpoint) runs and throws.
HandleErrorResponse(endpoint, response) ==
    /\ eResponse = NotYet
    /\ eEndpoint' = endpoint
    /\ eResponse' = response
    /\ LET errorBody == ErrorBodyOf(response)
           message == MessageOf(errorBody, response.status)
           context == ContextOf(errorBody, endpoint, response.status)
       IN  eRaised' = [error |-> handleErrorResponse(response, 1),
                       message |-> RaisedMessage(response, message),
                       context |-> RaisedContext(response, context)]
    /\ UNCHANGED exceptErr

ErrNext ==
    \E endpoint \in ErrorEndpoints, response \in ErrorResponseSet :
        HandleErrorResponse(endpoint, response)

----------------------------------------------------------------------------
(* Properties of the raised error's message and context *)

\* C23: for every status that is not a success, the message of the raised
\* error is the message field of the body when the body is a JSON object with
\* one, otherwise the text of the response when there is one, otherwise
\* "HTTP {status}"; its context has endpoint and statusCode, and has errors
\* exactly when the body is an object with an errors field.
C23_MessageAndContextFromBody ==
    eRaised # NotYet =>
        LET body == eResponse.body
            isObject == IsJson(eResponse) /\ eResponse.parses /\ body.form = "object"
            readable == IsJson(eResponse) => eResponse.parses
        IN  /\ (isObject /\ body.message # JsUndefined) => eRaised.message = body.message.s
            /\ (~isObject /\ readable /\ body.text # "") => eRaised.message = body.text
            /\ (~isObject /\ (~readable \/ body.text = ""))
                  => eRaised.message = "HTTP " \o ToString(eResponse.status)
            /\ {"endpoint", "statusCode"} \subseteq DOMAIN eRaised.context
            /\ eRaised.context["endpoint"] = JsString(eEndpoint)
            /\ eRaised.context["statusCode"] = JsNumber(eResponse.status)
            /\ ("errors" \in DOMAIN eRaised.context)
                  = (isObject /\ body.errors # JsUndefined)

\* The part of C23 the classifier keeps: the context of every raised error, and
\* the message for the statuses other than 404 and 429.
MessageFromBodyExceptFixed ==
    eRaised # NotYet =>
        LET body == eResponse.body
            isObject == IsJson(eResponse) /\ eResponse.parses /\ body.form = "object"
            readable == IsJson(eResponse) => eResponse.parses
        IN  /\ eResponse.status \notin {404, 429} =>
                /\ (isObject /\ body.message # JsUndefined)
                      => eRaised.message = body.message.s
                /\ (~isObject /\ readable /\ body.text # "")
                      => eRaised.message = body.text
                /\ (~isObject /\ (~readable \/ body.text = ""))
                      => eRaised.message = "HTTP " \o ToString(eResponse.status)
            /\ eRaised.context["endpoint"] = JsString(eEndpoint)
            /\ eRaised.context["statusCode"] = JsNumber(eResponse.status)
            /\ ("errors" \in DOMAIN eRaised.context)
                  = (isObject /\ body.errors # JsUndefined)

----------------------------------------------------------------------------
(* config/env.ts: the cached configuration *)

LogLevels == {"trace", "debug", "info", "warn", "error", "fatal", "silent"}
NodeEnvs == {"development", "production", "test"}

\* z.string().url(): the texts of the model that the URL constructor accepts.
IsUrl(text) == text \in {"https://drive.futurixai.com", "http://localhost:3000"}

\* One field of envSchema: whether the variable passes, and its parsed value.
\*   ZERODRIVE_API_KEY: z.string().min(1)
\*   ZERODRIVE_BASE_URL: z.string().url().default('https://drive.futurixai.com')
\*   LOG_LEVEL: z.enum([...]).default('info')
\*   NODE_ENV: z.enum([...]).default('production')
FieldPasses(name, var) ==
    CASE name = "ZERODRIVE_API_KEY" -> var.set /\ var.v # ""
      [] name = "ZERODRIVE_BASE_URL" -> ~var.set \/ IsUrl(var.v)
      [] name = "LOG_LEVEL" -> ~var.set \/ var.v \in LogLevels
      [] name = "NODE_ENV" -> ~var.set \/ var.v \in NodeEnvs

FieldDefault(name) ==
    CASE name = "ZERODRIVE_BASE_URL" -> "https://drive.futurixai.com"
      [] name = "LOG_LEVEL" -> "info"
      [] name = "NODE_ENV" -> "production"
      [] OTHER -> ""

\* envSchema.safeParse({...process.env[...]})
safeParse(environment) ==
    LET issues == {name \in EnvNames : ~FieldPasses(name, environment[name])}
    IN  [success |-> issues = {},
         issues |-> issues,
         data |-> [name \in EnvNames |->
                      IF environment[name].set THEN environment[name].v
                      ELSE FieldDefault(name)]]

\* new Error(`Configuration validation failed:\n${errors}`)
ConfigurationFailed(issues) == [name |-> "Error", issues |-> issues]

\* A loadConfig that parses the environment at every call.
loadConfigUncached(cached, environment) ==
    LET result == safeParse(environment)
    IN  IF ~result.success
        THEN [result |-> Thrown(ConfigurationFailed(result.issues)), cached |-> cached]
        ELSE [result |-> Returned(result.data), cached |-> result.data]

\* loadConfig(): its result and the cachedConfig it leaves.
loadConfig(cached, environment) ==
    IF cached # JsNull
    THEN [result |-> Returned(cached), cached |-> cached]
    ELSE LET result == safeParse(environment)
         IN  IF ~result.success
             THEN [result |-> Thrown(ConfigurationFailed(result.issues)),
                   cached |-> cached]
             ELSE [result |-> Returned(result.data), cached |-> result.data]

\* getConfig(key): loadConfig()[key]
getConfig(cached, environment, key) ==
    LET loaded == loadConfig(cached, environment)
    IN  [result |-> IF loaded.result.kind = "return"
                    THEN Returned(loaded.result.value[key])
                    ELSE loaded.result,
         cached |-> loaded.cached,
         config |-> loaded.result]

\* The values the environment variables take in the model.
EnvChoices(name) ==
    CASE name = "ZERODRIVE_API_KEY" -> {EnvUnset, EnvValue(""), EnvValue("key-1"), EnvValue("key-2")}
      [] name = "ZERODRIVE_BASE_URL" -> {EnvUnset, EnvValue("http://localhost:3000"), EnvValue("not a url")}
      [] name = "LOG_LEVEL" -> {EnvUnset, EnvValue("debug"), EnvValue("verbose")}
      [] name = "NODE_ENV" -> {EnvUnset, EnvValue("test")}

\* The configuration of the first successful load since the last reset.
FirstSince(loaded) ==
    IF cFirst = NotYet /\ loaded.kind = "return" THEN loaded.value ELSE cFirst

\* process.env[name] = value, or delete process.env[name]
SetEnv(name, value) ==
    /\ env[name] # value
    /\ env' = [env EXCEPT ![name] = value]
    /\ cCall' = [op |-> "env", key |-> name, fresh |-> FALSE, result |-> NotYet]
    /\ UNCHANGED <<cachedConfig, cFirst>>
    /\ UNCHANGED exceptConfig

LoadConfig ==
    /\ LET loaded == loadConfig(cachedConfig, env)
       IN  /\ cachedConfig' = loaded.cached
           /\ cFirst' = FirstSince(loaded.result)
           /\ cCall' = [op |-> "load", key |-> "", fresh |-> cFirst = NotYet,
                        result |-> loaded.result]
    /\ UNCHANGED env
    /\ UNCHANGED exceptConfig

GetConfig(key) ==
    /\ LET got == getConfig(cachedConfig, env, key)
       IN  /\ cachedConfig' = got.cached
           /\ cFirst' = FirstSince(got.config)
           /\ cCall' = [op |-> "get", key |-> key, fresh |-> cFirst = NotYet,
                        result |-> got.result]
    /\ UNCHANGED env
    /\ UNCHANGED exceptConfig

ResetConfig ==
    /\ cCall.op # "reset"
    /\ cachedConfig' = JsNull
    /\ cFirst' = NotYet
    /\ cCall' = [op |-> "reset", key |-> "", fresh |-> FALSE, result |-> NotYet]
    /\ UNCHANGED env
    /\ UNCHANGED exceptConfig

ConfigNext ==
    \/ \E name \in EnvNames : \E value \in EnvChoices(name) : SetEnv(name, value)
    \/ LoadConfig
    \/ \E key \in EnvNames : GetConfig(key)
    \/ ResetConfig

----------------------------------------------------------------------------
(* Properties of the cached configuration *)

\* C22: after a successful loadConfig every later loadConfig and getConfig
\* returns the configuration of that load, whatever the environment has become,
\* until resetConfig; the first load after a reset (or after a failed load)
\* reads the environment as it is then; a load that fails caches nothing, so a
\* load made with a valid environment and no cache succeeds.
C22_ConfigCachedUntilReset ==
    /\ (cCall.op = "load" /\ ~cCall.fresh) => cCall.result = Returned(cFirst)
    /\ (cCall.op = "get" /\ ~cCall.fresh) => cCall.result = Returned(cFirst[cCall.key])
    /\ (cCall.op = "load" /\ cCall.fresh /\ safeParse(env).success)
          => cCall.result = Returned(safeParse(env).data)
    /\ (cCall.op = "get" /\ cCall.fresh /\ safeParse(env).success)
          => cCall.result = Returned(safeParse(env).data[cCall.key])
    /\ (cCall.op \in {"load", "get"} /\ cCall.result.kind = "throw")
          => (cachedConfig = JsNull /\ cFirst = NotYet /\ ~safeParse(env).success)
    /\ cCall.op = "reset" => cachedConfig = JsNull

\* A load returned the cached configuration although the environment had been
\* changed to another valid one since the load that cached it.
C22_Witness ==
    /\ cCall.op = "load"
    /\ ~cCall.fresh
    /\ cCall.result.kind = "return"
    /\ safeParse(env).success
    /\ safeParse(env).data # cCall.result.value

----------------------------------------------------------------------------
(* A tool handler and the request helpers get, post, put, patch, del *)

RequestHelpers == {"get", "post", "put", "patch", "del"}

\* HTTP_METHODS.* of the helper.
HelperMethod(helper) ==
    CASE helper = "get" -> "GET"
      [] helper = "post" -> "POST"
      [] helper = "put" -> "PUT"
      [] helper = "patch" -> "PATCH"
      [] helper = "del" -> "DELETE"

\* The options the helper passes to apiRequest: { method, body, query }.
HelperOptions(helper) ==
    [method |-> HelperMethod(helper),
     body |-> IF helper \in {"post", "put", "patch"} THEN JsObject("X") ELSE JsUndefined,
     headers |-> EmptyObject,
     rawResponse |-> FALSE]

\* The handler has parsed its arguments and awaits get/post/put/patch/del(endpoint).
InvokeTool(helper) ==
    /\ tpc = "idle"
    /\ tpc' = "awaiting"
    /\ tHelper' = helper
    /\ UNCHANGED <<tCalls, tResult>>
    /\ UNCHANGED exceptTool

\* The helper returns apiRequest(endpoint, options): the one invocation
\* settles, the handler returns formatSuccess(result) or lets the error through.
HelperSettles(fetchResult) ==
    /\ tpc = "awaiting"
    /\ tCalls' = tCalls + 1
    /\ tResult' = apiRequest(HelperOptions(tHelper), "key-1", fetchResult, tCalls')
    /\ tpc' = "done"
    /\ UNCHANGED tHelper
    /\ UNCHANGED exceptTool

ToolNext ==
    \/ \E helper \in RequestHelpers : InvokeTool(helper)
    \/ \E fetchResult \in FetchResults : HelperSettles(fetchResult)

----------------------------------------------------------------------------
(* Properties of a tool invocation *)

\* C24: a retryable failure of the request of a tool handler reaches the
\* caller of the tool only after the retry budget was used up: the executor
\* was invoked DefaultMaxRetries + 1 times.
C24_HandlerRequestIsRetried ==
    (tpc = "done" /\ tResult.kind = "throw" /\ isRetryableError(tResult.error))
        => tCalls = DefaultMaxRetries + 1

----------------------------------------------------------------------------
(* Properties of the sleeps of the retry controller *)

\* C27: apiRequestWithRetry sleeps only between two attempts. While it runs,
\* an attempt is started only when every earlier attempt was followed by a
\* sleep that has ended; a call that made k >= 1 attempts and is over slept
\* k - 1 times, so no sleep follows a success, a failure that is not
\* retryable or the last attempt; the sleep after the failed attempt i
\* (0-indexed) is retryDelay * 2^i.
C27_SleepsOnlyBetweenAttempts ==
    /\ pc = "attempt" => (calls = attempt /\ Len(sleeps) = calls)
    /\ pc = "sleep" => (calls = attempt + 1 /\ Len(sleeps) = calls
                          /\ ~IsLastAttempt(attempt, maxRetries)
                          /\ tried.kind = "throw" /\ isRetryableError(tried.error))
    /\ (pc = "done" /\ calls >= 1) => Len(sleeps) = calls - 1
    /\ \A i \in 1..Len(sleeps) : sleeps[i] = retryDelay * (2 ^ (i - 1))
    /\ Len(flags) >= Len(sleeps)
    /\ \A i \in 1..Len(sleeps) : flags[i]

\* A call that is over made three attempts and slept twice, the second sleep
\* twice as long as the first.
C27_Witness ==
    /\ pc = "done"
    /\ calls = 3
    /\ Len(sleeps) = 2
    /\ sleeps[2] = 2 * sleeps[1]
    /\ sleeps[1] = retryDelay

\* C29: apiRequestWithRetry makes at least one attempt for every configured
\* maxRetries (exactly one, without a sleep, for maxRetries = 0), and a value
\* it raises is the error of one of its attempts.
C29_AtLeastOneAttempt ==
    pc = "done" =>
        /\ calls >= 1
        /\ maxRetries = 0 => (calls = 1 /\ sleeps = <<>>)
        /\ outcome.kind = "throw" => (tried.kind = "throw" /\ outcome.error = tried.error)

----------------------------------------------------------------------------
(* Properties of the resources and of the promise of an upload *)

\* C26: once the promise of uploadFile has settled, the file read stream and
\* the request opened by the call are both released, on every exit path.
C26_NothingOpenOnceSettled ==
    upPromise # NotYet => (upStream # "open" /\ upReq # "open")

\* The settlement each settling event asks for when it is the first one.
FirstSettlement(event) ==
    CASE event = "submit-error" -> PromiseRejected(NetworkError(1), "Upload failed")
      [] event = "end" -> PromiseResolved(OnEnd(upStatus, upData))
      [] event = "response-error" -> PromiseRejected(NetworkError(1), "Upload response error")
      [] event = "timeout" -> TimeoutRejection(UploadTimeout(upConfig), 1)

\* C28: the promise of an upload of a regular file is unsettled until the
\* first of submit error, response end, response error and timeout runs, and
\* from then on it is what that first event settled it with, whatever events
\* run afterwards in whatever order.
C28_SettledOnceByFirstEvent ==
    (upc # "idle" /\ upConfig.path = "file") =>
        IF upLog = <<>> THEN upPromise = NotYet
        ELSE upPromise = FirstSettlement(upLog[1])

\* The response ended with a success, then the timeout ran: the promise is
\* still resolved.
C28_Witness ==
    /\ Len(upLog) = 2
    /\ upLog[1] = "end"
    /\ upLog[2] = "timeout"
    /\ upPromise.kind = "resolve"
    /\ upPromise.value.success

----------------------------------------------------------------------------
(* Concurrent apiRequestWithRetry calls.  maxRetries, attempt and lastError *)
(* are locals of each invocation; the calls interleave at their awaits.     *)

MaxConcurrentRetries == 1

ConcurrentConfigs == {[maxRetries |-> k] : k \in (-1)..MaxConcurrentRetries}

\* What the fetch call of an attempt produces: a success, a 503, a 400, a
\* transport fault.
ConcurrentFetchResults ==
    {Response(200, "application/json", HeaderAbsent, TRUE),
     Response(503, "application/json", HeaderAbsent, TRUE),
     Response(400, "application/json", HeaderAbsent, TRUE),
     Rejected(Foreign("TypeError", TRUE, <<"fetch", "failed">>))}

\* attempt++ of every call at once, as if attempt were shared.
WakeAll(c, attempts) == [d \in DOMAIN attempts |-> NextAttempt(attempts[d])]

\* attempt++ of the call c: `let attempt` is a local of the invocation.
WakeOne(c, attempts) == [attempts EXCEPT ![c] = NextAttempt(@)]

\* Call c is made: the locals are set and the loop condition is tested.
CallStart(c, config) ==
    /\ kpc[c] = "idle"
    /\ kMax' = [kMax EXCEPT ![c] = ResolveConfig(config).maxRetries]
    /\ IF LoopCondition(0, kMax'[c])
       THEN /\ kpc' = [kpc EXCEPT ![c] = "attempt"]
            /\ UNCHANGED kOutcome
       ELSE /\ kpc' = [kpc EXCEPT ![c] = "done"]
            /\ kOutcome' = [kOutcome EXCEPT ![c] = Thrown(kLast[c])]
    /\ UNCHANGED <<kAttempt, kTried, kLast>>
    /\ UNCHANGED exceptCall

\* One iteration of the loop of call c.
CallAttempt(c, fetchResult) ==
    /\ kpc[c] = "attempt"
    /\ LET did == apiRequest(NoOptions, "key-1", fetchResult, <<c, Len(kTried[c]) + 1>>)
       IN  /\ kTried' = [kTried EXCEPT ![c] = Append(@, did)]
           /\ IF did.kind = "return"
              THEN /\ kOutcome' = [kOutcome EXCEPT ![c] = did]
                   /\ kpc' = [kpc EXCEPT ![c] = "done"]
                   /\ UNCHANGED kLast
              ELSE /\ kLast' = [kLast EXCEPT ![c] = RecordError(@, did.error)]
                   /\ IF ~isRetryableError(did.error)
                      THEN /\ kOutcome' = [kOutcome EXCEPT ![c] = Thrown(did.error)]
                           /\ kpc' = [kpc EXCEPT ![c] = "done"]
                      ELSE IF IsLastAttempt(kAttempt[c], kMax[c])
                      THEN /\ kOutcome' = [kOutcome EXCEPT ![c] = Thrown(kLast'[c])]
                           /\ kpc' = [kpc EXCEPT ![c] = "done"]
                      ELSE /\ kpc' = [kpc EXCEPT ![c] = "sleep"]
                           /\ UNCHANGED kOutcome
    /\ UNCHANGED <<kMax, kAttempt>>
    /\ UNCHANGED exceptCall

\* The timer of the sleep of call c fires.
CallWake(c) ==
    /\ kpc[c] = "sleep"
    /\ kAttempt' = WakeOne(c, kAttempt)
    /\ IF LoopCondition(kAttempt'[c], kMax[c])
       THEN /\ kpc' = [kpc EXCEPT ![c] = "attempt"]
            /\ UNCHANGED kOutcome
       ELSE /\ kpc' = [kpc EXCEPT ![c] = "done"]
            /\ kOutcome' = [kOutcome EXCEPT ![c] = Thrown(kLast[c])]
    /\ UNCHANGED <<kMax, kTried, kLast>>
    /\ UNCHANGED exceptCall

ConcurrentNext ==
    \E c \in CallIds :
        \/ \E config \in ConcurrentConfigs : CallStart(c, config)
        \/ \E fetchResult \in ConcurrentFetchResults : CallAttempt(c, fetchResult)
        \/ CallWake(c)

----------------------------------------------------------------------------
(* Properties of concurrent calls *)

\* An attempt of the call that failed with a retryable error.
RetryableFailure(did) == did.kind = "throw" /\ isRetryableError(did.error)

\* What the call c owes its caller, from its own attempts alone.
OwnResult(c) ==
    IF kTried[c] = <<>> THEN Thrown(ThrownUndefined)
    ELSE LET last == kTried[c][Len(kTried[c])]
         IN  IF last.kind = "return" THEN last ELSE Thrown(last.error)

\* C25: in every interleaving of concurrent calls, each call makes at most
\* its maxRetries + 1 attempts, goes on exactly while its own attempts fail
\* with a retryable error and its own budget lasts, and returns or raises the
\* result of its own last attempt; a call that sleeps keeps no other call from
\* making its attempt.
C25_ConcurrentCallsIndependent ==
    \A c \in CallIds :
        /\ kpc[c] # "idle" =>
            /\ (kMax[c] >= 0 => Len(kTried[c]) <= kMax[c] + 1)
            /\ \A i \in 1..(Len(kTried[c]) - 1) : RetryableFailure(kTried[c][i])
            /\ \A i \in 1..Len(kTried[c]) : kTried[c][i].kind = "return"
                    => kTried[c][i].value.at = <<c, i>>
            /\ \A i \in 1..Len(kTried[c]) : kTried[c][i].kind = "throw"
                    => kTried[c][i].error.at = <<c, i>>
        /\ kpc[c] = "done" =>
            /\ kOutcome[c] = OwnResult(c)
            /\ (kTried[c] # <<>> /\ RetryableFailure(kTried[c][Len(kTried[c])]))
                  => Len(kTried[c]) = kMax[c] + 1
        /\ kpc[c] \in {"attempt", "sleep"} => kOutcome[c] = NotYet
        /\ kpc[c] = "sleep" =>
              \A d \in CallIds \ {c} :
                  kpc[d] = "attempt" =>
                      ENABLED (\E fetchResult \in ConcurrentFetchResults :
                                  CallAttempt(d, fetchResult))

\* Call b made two attempts and is over while call a, started with a larger
\* budget, is still in the sleep after its first attempt.
C25_Witness ==
    /\ kpc["a"] = "sleep"
    /\ Len(kTried["a"]) = 1
    /\ kpc["b"] = "done"
    /\ Len(kTried["b"]) = 2
    /\ kOutcome["b"].kind = "return"
    /\ kOutcome["b"].value.at = <<"b", 2>>

----------------------------------------------------------------------------
(* The specifications: one per component, from the same initial state. *)

\* apiRequestWithRetry calls.
Spec == Init /\ [][Next]_vars

\* uploadFile calls.
SpecUpload == Init /\ [][UploadNext]_vars

\* Operations on one QueryBuilder.
SpecQuery == Init /\ [][QueryNext]_vars

\* Operations on one RequestBodyBuilder and the objects it returns, or one
\* create_folder call.
SpecBody == Init /\ [][BodyNext]_vars

\* wrapError applied twice to one caught value.
SpecWrap == Init /\ [][WrapNext]_vars

\* handleErrorResponse on one error response.
SpecErr == Init /\ [][ErrNext]_vars

\* The configuration module under changes of the environment.
SpecConfig == Init /\ [][ConfigNext]_vars

\* One tool invocation whose handler issues one request.
SpecTool == Init /\ [][ToolNext]_vars

\* Two apiRequestWithRetry calls that run concurrently.
SpecConcurrent == Init /\ [][ConcurrentNext]_vars

====
